---------------------------- MODULE Spec2Model ----------------------------
(***************************************************************************)
(* Break-scheduling engine of lazaro-core (crates/lazaro-core/src/timer.rs) *)
(* as a state machine.  The engine is one record, `engine`, with the       *)
(* fields of struct TimerEngine; every method is an operator from the      *)
(* engine (and its arguments) to the engine after the call and the value   *)
(* the call returns.  Option<T> is a sequence: <<>> is None, <<v>> is      *)
(* Some(v).  An EngineEvent is a tuple whose head is the variant's name.   *)
(* The module also holds AnalyticsStore (analytics.rs) and ProfileStore    *)
(* (profile.rs) of the same crate, and the loop that drives the engine in  *)
(* the desktop application (apps/desktop/src-tauri/src/main.rs), each      *)
(* under a specification of its own.                                       *)
(***************************************************************************)
EXTENDS Integers, Sequences, FiniteSets, TLC

VARIABLES
    engine,       \* the TimerEngine value
    events,       \* what the last call returned (Vec<EngineEvent>)
    call,         \* the last call and its arguments
    cum,          \* active seconds fed since construction while `fresh`
    fresh,        \* only on_activity(a > 0) calls so far, no DailyReset, no break started
    last_snooze,  \* per kind: <<t + S>> of the latest snooze(kind, t), else <<>>
    reset_since,  \* a DailyReset was emitted after the latest snooze(DailyLimit, t)
    after_rest,   \* position in the run "Rest completed; on_activity(I-1); on_activity(1)"
    clock,        \* the latest instant handed to new, on_activity or snooze
    begun,        \* <<[duration, ticked]>> of the break in progress: its remaining
                  \* seconds when it started and the seconds ticked since, else <<>>
                  \* (under per-second polling it is kept once the break completes)
    build,        \* "debug" or "release": how the crate was compiled
    fault,        \* "none", or what an arithmetic step of the last call did when
                  \* its result left the range of its type: "panicked" | "wrapped"
    by_day,       \* AnalyticsStore.by_day: day index -> DailyAggregate
    recorded,     \* number of record_activity and record_break calls so far
    profile_store,\* the ProfileStore value: [profiles, active_id]
    was_active,   \* active_id of the ProfileStore before the last call
    host,         \* runtime_loop: where it stands (pc), its locals running,
                  \* pending_break and core_settings, and the weekly_stats it updates
    queue,        \* the RuntimeControl messages sent and not yet received
    tx,           \* RuntimeController.tx: <<>> once stop_runtime has taken the sender
    sent,         \* number of messages sent so far
    forecast,     \* <<[kind, countdown, polls, reset]>>: what the latest
                  \* next_break_eta answered, the per-second on_activity calls made
                  \* since, and whether one of them emitted DailyReset; else <<>>
    runtime       \* the RuntimeController (tx, handle, status.running), the
                  \* runtime_loop threads spawned so far and the handles being joined

run_vars == <<cum, fresh, last_snooze, reset_since, after_rest>>
clock_vars == <<clock, begun>>
analytics_vars == <<by_day, recorded>>
profile_vars == <<profile_store, was_active>>
host_vars == <<host, queue, tx, sent>>
poll_vars == <<forecast>>
runtime_vars == <<runtime>>
rest_vars == <<analytics_vars, profile_vars, host_vars, poll_vars, runtime_vars>>
other_vars == <<build, fault, rest_vars>>
\* `call` comes before `events`: two states with the same call hold values of
\* the same type in `events`
vars == <<call, events, engine, cum, fresh, last_snooze, reset_since, after_rest,
          clock, begun, build, fault, by_day, recorded, profile_store, was_active,
          host, queue, tx, sent, forecast, runtime>>

---------------------------------------------------------------------------
(* Bounds of the model *)

\* on_activity is not explored past this value of any counter
MaxActive == 3
\* the partial tick fed to tick_break
TickStep == 40

(* Program constants *)

\* seconds per day, timer.rs:275 and timer.rs:280
DAY_SECONDS == 86400
\* duration of a DailyLimit break, timer.rs:157
DAILY_LIMIT_BREAK_SECONDS == 60
\* u64::MAX, the ceiling of saturating_add, clipped to the largest integer
\* TLC represents; every value of the model stays far below it
U64_MAX == 2147483647
\* i64::MAX and i64::MIN, one bit narrower than the clipped u64 as in Rust
I64_MAX == 1073741823
I64_MIN == -1073741824

---------------------------------------------------------------------------
(* Option and small helpers *)

None == <<>>
Some(v) == <<v>>
is_some(o) == o # <<>>
is_none(o) == o = <<>>
unwrap(o) == o[1]

Max(a, b) == IF a >= b THEN a ELSE b

saturating_add(a, b) == IF a >= U64_MAX - b THEN U64_MAX ELSE a + b
saturating_sub(a, b) == IF a >= b THEN a - b ELSE 0

\* Rust's integer division on i64 truncates toward zero
TruncDiv(a, b) == IF a >= 0 THEN a \div b ELSE -((-a) \div b)

BreakKinds == {"Micro", "Rest", "DailyLimit"}
BlockLevels == {"Soft", "Medium", "Strict"}

---------------------------------------------------------------------------
(* config.rs *)

BreakTimerSettings(i, d, s, en) ==
    [interval_seconds |-> i, duration_seconds |-> d,
     snooze_seconds |-> s, enabled |-> en]

DailyLimitSettings(l, s, h, m, en) ==
    [limit_seconds |-> l, snooze_seconds |-> s,
     reset_hour_local |-> h, reset_minute_local |-> m, enabled |-> en]

Settings(mi, re, dl, bl) ==
    [micro |-> mi, rest |-> re, daily_limit |-> dl, block_level |-> bl]

reset_offset_seconds(dl) ==
    (dl.reset_hour_local * 3600) + (dl.reset_minute_local * 60)

---------------------------------------------------------------------------
(* timer.rs: the pure parts *)

\* `u as i64`: the same bits read as a signed integer
as_i64(u) == IF u > I64_MAX THEN u - U64_MAX - 1 ELSE u
\* `i as u64`
as_u64(i) == IF i < 0 THEN i + U64_MAX + 1 ELSE i
\* n is a value of i64
in_i64(n) == I64_MIN <= n /\ n <= I64_MAX
\* what i64 arithmetic leaves of the exact result n when overflow checks are off
wrapping_i64(n) ==
    IF n > I64_MAX THEN n - U64_MAX - 1
    ELSE IF n < I64_MIN THEN n + U64_MAX + 1
    ELSE n

daily_bucket(now_local_unix, reset_offset) ==
    TruncDiv(wrapping_i64(as_i64(now_local_unix) - as_i64(reset_offset)), DAY_SECONDS)

\* timer.rs:275: the subtraction leaves i64
daily_bucket_overflows(now_local_unix, reset_offset) ==
    ~in_i64(as_i64(now_local_unix) - as_i64(reset_offset))

\* variant: a snooze still holds at the instant it ends
is_snoozed_inclusive(until, now_local_unix) ==
    is_some(until) /\ now_local_unix <= until[1]

is_snoozed(until, now_local_unix) ==
    is_some(until) /\ now_local_unix < unwrap(until)

\* variant: the operands of the subtraction are exchanged
snooze_remaining_elapsed(until, now_local_unix) ==
    IF until # <<>> THEN saturating_sub(now_local_unix, until[1]) ELSE 0

snooze_remaining(until, now_local_unix) ==
    IF is_some(until) THEN saturating_sub(unwrap(until), now_local_unix) ELSE 0

\* variant: the daily limit wins a tie
kind_priority_daily_first(kind) ==
    CASE kind = "Micro" -> 1
      [] kind = "Rest" -> 2
      [] kind = "DailyLimit" -> 0

kind_priority(kind) ==
    CASE kind = "Micro" -> 0
      [] kind = "Rest" -> 1
      [] kind = "DailyLimit" -> 2

new(settings, now_local_unix) ==
    [settings |-> settings,
     micro_active |-> 0,
     rest_active |-> 0,
     daily_active |-> 0,
     micro_snooze_until |-> None,
     rest_snooze_until |-> None,
     daily_snooze_until |-> None,
     active_break |-> None,
     last_reset_bucket |->
        daily_bucket(now_local_unix, reset_offset_seconds(settings.daily_limit))]

active_break_info(e) ==
    IF is_some(e.active_break)
    THEN Some(<<unwrap(e.active_break).kind, unwrap(e.active_break).remaining_seconds>>)
    ELSE None

\* variant: Micro is due only once its counter is past the interval
next_due_past_interval(e, now_local_unix) ==
    IF /\ e.settings.micro.enabled
       /\ e.micro_active > e.settings.micro.interval_seconds
       /\ (e.micro_snooze_until = <<>> \/ now_local_unix >= e.micro_snooze_until[1])
    THEN <<"Micro">>
    ELSE IF /\ e.settings.rest.enabled
            /\ e.rest_active >= e.settings.rest.interval_seconds
            /\ (e.rest_snooze_until = <<>> \/ now_local_unix >= e.rest_snooze_until[1])
    THEN <<"Rest">>
    ELSE IF /\ e.settings.daily_limit.enabled
            /\ e.daily_active >= e.settings.daily_limit.limit_seconds
            /\ (e.daily_snooze_until = <<>> \/ now_local_unix >= e.daily_snooze_until[1])
    THEN <<"DailyLimit">>
    ELSE <<>>

\* variant: the Rest check does not look at `enabled`
next_due_ignoring_enabled(e, now_local_unix) ==
    IF /\ e.settings.micro.enabled
       /\ e.micro_active >= e.settings.micro.interval_seconds
       /\ (e.micro_snooze_until = <<>> \/ now_local_unix >= e.micro_snooze_until[1])
    THEN <<"Micro">>
    ELSE IF /\ e.rest_active >= e.settings.rest.interval_seconds
            /\ (e.rest_snooze_until = <<>> \/ now_local_unix >= e.rest_snooze_until[1])
    THEN <<"Rest">>
    ELSE IF /\ e.settings.daily_limit.enabled
            /\ e.daily_active >= e.settings.daily_limit.limit_seconds
            /\ (e.daily_snooze_until = <<>> \/ now_local_unix >= e.daily_snooze_until[1])
    THEN <<"DailyLimit">>
    ELSE <<>>

next_due(e, now_local_unix) ==
    IF /\ e.settings.micro.enabled
       /\ e.micro_active >= e.settings.micro.interval_seconds
       /\ ~is_snoozed(e.micro_snooze_until, now_local_unix)
    THEN Some("Micro")
    ELSE IF /\ e.settings.rest.enabled
            /\ e.rest_active >= e.settings.rest.interval_seconds
            /\ ~is_snoozed(e.rest_snooze_until, now_local_unix)
    THEN Some("Rest")
    ELSE IF /\ e.settings.daily_limit.enabled
            /\ e.daily_active >= e.settings.daily_limit.limit_seconds
            /\ ~is_snoozed(e.daily_snooze_until, now_local_unix)
    THEN Some("DailyLimit")
    ELSE None

\* variant: completing Rest leaves the micro counter alone
complete_break_own_counter(e, kind) ==
    CASE kind = "Micro" -> [e EXCEPT !.micro_active = 0]
      [] kind = "Rest" -> [e EXCEPT !.rest_active = 0]
      [] kind = "DailyLimit" ->
            [e EXCEPT !.daily_active = 0, !.rest_active = 0, !.micro_active = 0]

complete_break(e, kind) ==
    CASE kind = "Micro" -> [e EXCEPT !.micro_active = 0]
      [] kind = "Rest" -> [e EXCEPT !.rest_active = 0, !.micro_active = 0]
      [] kind = "DailyLimit" ->
            [e EXCEPT !.daily_active = 0, !.rest_active = 0, !.micro_active = 0]

\* variant: the daily reset zeroes every counter
maybe_daily_reset_all(e, now_local_unix) ==
    LET bucket == daily_bucket(now_local_unix,
                               reset_offset_seconds(e.settings.daily_limit))
    IN  IF bucket # e.last_reset_bucket
        THEN [engine |-> [e EXCEPT !.last_reset_bucket = bucket,
                                   !.micro_active = 0,
                                   !.rest_active = 0,
                                   !.daily_active = 0,
                                   !.daily_snooze_until = <<>>],
              reset |-> TRUE]
        ELSE [engine |-> e, reset |-> FALSE]

\* returns the engine after the call and whether a reset happened
maybe_daily_reset(e, now_local_unix) ==
    LET bucket == daily_bucket(now_local_unix,
                               reset_offset_seconds(e.settings.daily_limit))
    IN  IF bucket # e.last_reset_bucket
        THEN [engine |-> [e EXCEPT !.last_reset_bucket = bucket,
                                   !.daily_active = 0,
                                   !.daily_snooze_until = None],
              reset |-> TRUE]
        ELSE [engine |-> e, reset |-> FALSE]

\* variant: the DailyLimit break lasts as long as a Rest break
break_duration_of_rest(e, kind) ==
    CASE kind = "Micro" -> e.settings.micro.duration_seconds
      [] kind = "Rest" -> e.settings.rest.duration_seconds
      [] kind = "DailyLimit" -> e.settings.rest.duration_seconds

break_duration(e, kind) ==
    CASE kind = "Micro" -> e.settings.micro.duration_seconds
      [] kind = "Rest" -> e.settings.rest.duration_seconds
      [] kind = "DailyLimit" -> DAILY_LIMIT_BREAK_SECONDS

\* variant: start_break replaces a break that is already active
start_break_replacing(e, kind) ==
    [engine |-> [e EXCEPT !.active_break =
                    <<[kind |-> kind, remaining_seconds |-> break_duration(e, kind)]>>],
     events |-> << <<"BreakStarted", kind>> >>]

start_break(e, kind) ==
    IF is_some(e.active_break)
    THEN [engine |-> e, events |-> <<>>]
    ELSE [engine |-> [e EXCEPT !.active_break =
                        Some([kind |-> kind,
                              remaining_seconds |-> break_duration(e, kind)])],
          events |-> << <<"BreakStarted", kind>> >>]

\* variant: the completed break is not cleared
tick_break_keeping_break(e, elapsed_seconds) ==
    IF e.active_break = <<>>
    THEN [engine |-> e, events |-> <<>>]
    ELSE LET active == e.active_break[1]
         IN  IF elapsed_seconds >= active.remaining_seconds
             THEN [engine |-> complete_break(e, active.kind),
                   events |-> << <<"BreakCompleted", active.kind>> >>]
             ELSE [engine |-> [e EXCEPT !.active_break =
                                 <<[active EXCEPT !.remaining_seconds =
                                      active.remaining_seconds - elapsed_seconds]>>],
                   events |-> <<>>]

\* variant: a tick equal to the remaining seconds does not complete the break
tick_break_past_remaining(e, elapsed_seconds) ==
    IF e.active_break = <<>>
    THEN [engine |-> e, events |-> <<>>]
    ELSE LET active == e.active_break[1]
         IN  IF elapsed_seconds > active.remaining_seconds
             THEN [engine |-> complete_break([e EXCEPT !.active_break = <<>>],
                                             active.kind),
                   events |-> << <<"BreakCompleted", active.kind>> >>]
             ELSE [engine |-> [e EXCEPT !.active_break =
                                 <<[active EXCEPT !.remaining_seconds =
                                      active.remaining_seconds - elapsed_seconds]>>],
                   events |-> <<>>]

\* variant: any tick completes the break
tick_break_at_once(e, elapsed_seconds) ==
    IF is_none(e.active_break)
    THEN [engine |-> e, events |-> <<>>]
    ELSE LET active == unwrap(e.active_break)
         IN  [engine |-> complete_break([e EXCEPT !.active_break = None],
                                        active.kind),
              events |-> << <<"BreakCompleted", active.kind>> >>]

tick_break(e, elapsed_seconds) ==
    IF is_none(e.active_break)
    THEN [engine |-> e, events |-> <<>>]
    ELSE LET active == unwrap(e.active_break)
         IN  IF elapsed_seconds >= active.remaining_seconds
             THEN [engine |-> complete_break([e EXCEPT !.active_break = None],
                                             active.kind),
                   events |-> << <<"BreakCompleted", active.kind>> >>]
             ELSE [engine |-> [e EXCEPT !.active_break =
                                 Some([active EXCEPT !.remaining_seconds =
                                         active.remaining_seconds - elapsed_seconds])],
                   events |-> <<>>]

snooze_seconds_of(e, kind) ==
    CASE kind = "Micro" -> e.settings.micro.snooze_seconds
      [] kind = "Rest" -> e.settings.rest.snooze_seconds
      [] kind = "DailyLimit" -> e.settings.daily_limit.snooze_seconds

\* variant: snooze does nothing for a kind whose counter is below its interval
snooze_only_when_due(e, kind, now_local_unix) ==
    LET until == saturating_add(now_local_unix, snooze_seconds_of(e, kind))
        counter == CASE kind = "Micro" -> e.micro_active
                     [] kind = "Rest" -> e.rest_active
                     [] kind = "DailyLimit" -> e.daily_active
        interval == CASE kind = "Micro" -> e.settings.micro.interval_seconds
                      [] kind = "Rest" -> e.settings.rest.interval_seconds
                      [] kind = "DailyLimit" -> e.settings.daily_limit.limit_seconds
    IN  IF counter < interval
        THEN [engine |-> e, event |-> None]
        ELSE [engine |->
                CASE kind = "Micro" -> [e EXCEPT !.micro_snooze_until = Some(until)]
                  [] kind = "Rest" -> [e EXCEPT !.rest_snooze_until = Some(until)]
                  [] kind = "DailyLimit" -> [e EXCEPT !.daily_snooze_until = Some(until)],
              event |-> Some(<<"BreakSnoozed", kind, until>>)]

\* variant: snooze dismisses the break in progress
snooze_ending_break(e, kind, now_local_unix) ==
    LET until == saturating_add(now_local_unix, snooze_seconds_of(e, kind))
    IN  [engine |->
            CASE kind = "Micro" -> [e EXCEPT !.micro_snooze_until = Some(until),
                                             !.active_break = None]
              [] kind = "Rest" -> [e EXCEPT !.rest_snooze_until = Some(until),
                                            !.active_break = None]
              [] kind = "DailyLimit" -> [e EXCEPT !.daily_snooze_until = Some(until),
                                                  !.active_break = None],
         event |-> Some(<<"BreakSnoozed", kind, until>>)]

snooze(e, kind, now_local_unix) ==
    LET until== saturating_add(now_local_unix, snooze_seconds_of(e, kind))
    IN  [engine |->
            CASE kind = "Micro" -> [e EXCEPT !.micro_snooze_until = Some(until)]
              [] kind = "Rest" -> [e EXCEPT !.rest_snooze_until = Some(until)]
              [] kind = "DailyLimit" -> [e EXCEPT !.daily_snooze_until = Some(until)],
         event |-> Some(<<"BreakSnoozed", kind, until>>)]

\* variant: announcing a break discharges its counter
announce_due_discharging(e, now_local_unix) ==
    LET due == next_due(e, now_local_unix)
    IN  IF is_some(due)
        THEN IF e.settings.block_level = "Strict"
             THEN LET started == start_break(e, unwrap(due))
                  IN  [engine |-> started.engine,
                       events |-> << <<"BreakDue", unwrap(due)>> >> \o started.events]
             ELSE [engine |-> complete_break(e, unwrap(due)),
                   events |-> << <<"BreakDue", unwrap(due)>> >>]
        ELSE [engine |-> e, events |-> <<>>]

\* variant: the due break is announced and never started
announce_due_only(e, now_local_unix) ==
    LET due == next_due(e, now_local_unix)
    IN  IF due # <<>>
        THEN [engine |-> e, events |-> << <<"BreakDue", due[1]>> >>]
        ELSE [engine |-> e, events |-> <<>>]

\* timer.rs:140-145, the tail of on_activity once the counters have advanced
announce_due(e, now_local_unix) ==
    LET due == next_due(e, now_local_unix)
    IN  IF is_some(due)
        THEN IF e.settings.block_level = "Strict"
             THEN LET started == start_break(e, unwrap(due))
                  IN  [engine |-> started.engine,
                       events |-> << <<"BreakDue", unwrap(due)>> >> \o started.events]
             ELSE [engine |-> e, events |-> << <<"BreakDue", unwrap(due)>> >>]
        ELSE [engine |-> e, events |-> <<>>]

\* variant: the rest counter is left out
advance_counters_but_rest(e, active_seconds) ==
    [e EXCEPT !.micro_active = saturating_add(e.micro_active, active_seconds),
              !.daily_active = saturating_add(e.daily_active, active_seconds)]

\* timer.rs:136-138
advance_counters(e, active_seconds) ==
    [e EXCEPT !.micro_active = saturating_add(e.micro_active, active_seconds),
              !.rest_active = saturating_add(e.rest_active, active_seconds),
              !.daily_active = saturating_add(e.daily_active, active_seconds)]

\* variants: the early return of on_activity tests one condition only
activity_ignored_when_zero(e, active_seconds) == active_seconds = 0
activity_ignored_in_break(e, active_seconds) == e.active_break # <<>>

\* timer.rs:132, the early return of on_activity
activity_ignored(e, active_seconds) ==
    active_seconds = 0 \/ is_some(e.active_break)

on_activity(e, active_seconds, now_local_unix) ==
    LET r == maybe_daily_reset(e, now_local_unix)
        first == IF r.reset THEN << <<"DailyReset">> >> ELSE <<>>
    IN  IF activity_ignored(r.engine, active_seconds)
        THEN [engine |-> r.engine, events |-> first]
        ELSE LET d == announce_due(advance_counters(r.engine, active_seconds),
                                   now_local_unix)
             IN  [engine |-> d.engine, events |-> first \o d.events]

seconds_until_next_reset(now_local_unix, reset_offset) ==
    LET current_bucket == daily_bucket(now_local_unix, reset_offset)
        next_reset == wrapping_i64(wrapping_i64((current_bucket + 1) * DAY_SECONDS)
                                   + as_i64(reset_offset))
    IN  IF next_reset <= as_i64(now_local_unix)
        THEN 0
        ELSE saturating_sub(as_u64(next_reset), now_local_unix)

\* timer.rs:279-280: the subtraction, the multiplication or the addition
\* leaves i64
seconds_until_next_reset_overflows(now_local_unix, reset_offset) ==
    LET current_bucket == daily_bucket(now_local_unix, reset_offset)
    IN  \/ daily_bucket_overflows(now_local_unix, reset_offset)
        \/ ~in_i64((current_bucket + 1) * DAY_SECONDS)
        \/ ~in_i64(wrapping_i64((current_bucket + 1) * DAY_SECONDS) + as_i64(reset_offset))

\* variant: a snooze does not hold the countdown up
eta_countdown_ignoring_snooze(interval, active, until, now_local_unix) ==
    saturating_sub(interval, active)

\* timer.rs:84-89, 94-99 and 104-109: the countdown of one kind
eta_countdown(interval, active, until, now_local_unix) ==
    Max(saturating_sub(interval, active), snooze_remaining(until, now_local_unix))

\* timer.rs:81-119: the vector `candidates`, pairs <<kind, countdown>>
eta_candidates(e, now_local_unix) ==
    LET micro == eta_countdown(e.settings.micro.interval_seconds, e.micro_active,
                               e.micro_snooze_until, now_local_unix)
        rest == eta_countdown(e.settings.rest.interval_seconds, e.rest_active,
                              e.rest_snooze_until, now_local_unix)
        daily == eta_countdown(e.settings.daily_limit.limit_seconds, e.daily_active,
                               e.daily_snooze_until, now_local_unix)
        until_reset == seconds_until_next_reset(
                           now_local_unix, reset_offset_seconds(e.settings.daily_limit))
    IN  (IF e.settings.micro.enabled THEN << <<"Micro", micro>> >> ELSE <<>>)
        \o (IF e.settings.rest.enabled THEN << <<"Rest", rest>> >> ELSE <<>>)
        \o (IF e.settings.daily_limit.enabled /\ daily < until_reset
            THEN << <<"DailyLimit", daily>> >>
            ELSE <<>>)

\* the key (countdown, kind_priority(kind)) of timer.rs:123, compared as a pair
eta_key_le(a, b) ==
    \/ a[2] < b[2]
    \/ a[2] = b[2] /\ kind_priority(a[1]) <= kind_priority(b[1])

\* timer.rs:121-123: Iterator::min_by_key returns the first of the least
\* elements, None for an empty vector
min_by_key(candidates) ==
    IF candidates = <<>>
    THEN None
    ELSE LET least == {i \in 1..Len(candidates) :
                          \A j \in 1..Len(candidates) :
                              eta_key_le(candidates[i], candidates[j])}
         IN  Some(candidates[CHOOSE i \in least : \A j \in least : i <= j])

\* variant: the countdown is computed while a break is active too
next_break_eta_during_break(e, now_local_unix) ==
    min_by_key(eta_candidates(e, now_local_unix))

\* variant: the first candidate is returned, not the nearest
next_break_eta_first_candidate(e, now_local_unix) ==
    IF e.active_break # <<>>
    THEN <<>>
    ELSE IF eta_candidates(e, now_local_unix) = <<>>
         THEN <<>>
         ELSE <<eta_candidates(e, now_local_unix)[1]>>

next_break_eta(e, now_local_unix) ==
    IF is_some(e.active_break)
    THEN None
    ELSE min_by_key(eta_candidates(e, now_local_unix))

\* variant: new settings give the break in progress its new duration
replace_settings_restarting_break(e, settings) ==
    IF e.active_break = <<>>
    THEN [e EXCEPT !.settings = settings]
    ELSE [e EXCEPT !.settings = settings,
                   !.active_break =
                      <<[kind |-> e.active_break[1].kind,
                         remaining_seconds |->
                            CASE e.active_break[1].kind = "Micro" ->
                                    settings.micro.duration_seconds
                              [] e.active_break[1].kind = "Rest" ->
                                    settings.rest.duration_seconds
                              [] e.active_break[1].kind = "DailyLimit" ->
                                    DAILY_LIMIT_BREAK_SECONDS]>>]

\* main.rs:545, `*engine.settings_mut() = core_settings.clone()`
replace_settings(e, settings) == [e EXCEPT !.settings = settings]

---------------------------------------------------------------------------
(* Inputs explored by the model *)

MicroTimer(interval, en) == BreakTimerSettings(interval, 30, 2, en)
RestTimer(interval, en) == BreakTimerSettings(interval, 50, 2, en)

\* micro < rest <= daily limit, reset at 04:00, breaks offered
Ordered ==
    Settings(MicroTimer(2, TRUE), RestTimer(3, TRUE),
             DailyLimitSettings(3, 2, 4, 0, TRUE), "Medium")

\* the same timers under Strict, reset at 23:59
Forced ==
    Settings(MicroTimer(2, TRUE), RestTimer(3, TRUE),
             DailyLimitSettings(3, 2, 23, 59, TRUE), "Strict")

\* rest switched off, the daily limit below the micro interval, reset at 04:00
Odd ==
    Settings(MicroTimer(3, TRUE), RestTimer(1, FALSE),
             DailyLimitSettings(2, 2, 4, 0, TRUE), "Soft")

SettingsSet == {Ordered, Forced, Odd}

\* one second before 04:00 of day 0, 04:00 of day 1 and two seconds later
Instants == {14399, 100800, 100802}
SnoozeInstants == {100800}
Amounts == {0, 1, 2}
Elapsed == {0, TickStep, DAILY_LIMIT_BREAK_SECONDS}

---------------------------------------------------------------------------
(* Observers of a returned event list *)

HasEvent(evs, ev) == \E i \in 1..Len(evs) : evs[i] = ev
CountType(evs, type) == Cardinality({i \in 1..Len(evs) : evs[i][1] = type})
HasType(evs, type) == CountType(evs, type) > 0

\* (now - offset) / 86400 rounded toward minus infinity: the reset day of an instant
ResetDay(now, offset) == (now - offset) \div DAY_SECONDS

CounterOf(e, kind) ==
    CASE kind = "Micro" -> e.micro_active
      [] kind = "Rest" -> e.rest_active
      [] kind = "DailyLimit" -> e.daily_active

IntervalOf(e, kind) ==
    CASE kind = "Micro" -> e.settings.micro.interval_seconds
      [] kind = "Rest" -> e.settings.rest.interval_seconds
      [] kind = "DailyLimit" -> e.settings.daily_limit.limit_seconds

EnabledOf(e, kind) ==
    CASE kind = "Micro" -> e.settings.micro.enabled
      [] kind = "Rest" -> e.settings.rest.enabled
      [] kind = "DailyLimit" -> e.settings.daily_limit.enabled

SnoozeOf(e, kind) ==
    CASE kind = "Micro" -> e.micro_snooze_until
      [] kind = "Rest" -> e.rest_snooze_until
      [] kind = "DailyLimit" -> e.daily_snooze_until

---------------------------------------------------------------------------
(* The state machine *)

\* the variables of the other specifications, at rest
\* AnalyticsStore::default(): no day recorded
AnalyticsStore_default == [d \in {} |-> 0]

AnalyticsIdle ==
    /\ by_day = AnalyticsStore_default
    /\ recorded = 0

\* ProfileStore::default(): no profile, none active
ProfileStore_default == [profiles |-> [k \in {} |-> 0], active_id |-> <<>>]

ProfilesIdle ==
    /\ profile_store = ProfileStore_default
    /\ was_active = <<>>

\* WeeklyStatsDto (main.rs:69-75), all zero
WeeklyStatsDto_default ==
    [total_active_seconds |-> 0, micro_done |-> 0, rest_done |-> 0,
     daily_limit_hits |-> 0, skipped |-> 0]

\* no runtime loop started
HostIdle ==
    /\ host = [pc |-> "done", running |-> FALSE, pending_break |-> <<>>,
               core_settings |-> <<>>, weekly_stats |-> WeeklyStatsDto_default]
    /\ queue = <<>>
    /\ tx = <<>>
    /\ sent = 0

\* no next_break_eta answer is being followed
PollIdle == forecast = <<>>

\* RuntimeController::default() (main.rs:287-295): no sender, no handle, status
\* not running; no runtime_loop thread spawned, no handle being joined
RuntimeController_default ==
    [tx |-> <<>>, handle |-> <<>>, running |-> FALSE, loops |-> <<>>, joins |-> {}]

RuntimeIdle == runtime = RuntimeController_default

RestIdle == AnalyticsIdle /\ ProfilesIdle /\ HostIdle /\ PollIdle /\ RuntimeIdle

OthersIdle ==
    /\ build = "release"
    /\ fault = "none"
    /\ RestIdle

Init ==
    \E s \in SettingsSet, now \in Instants :
        /\ engine = new(s, now)
        /\ events = <<>>
        /\ call = <<"new", now>>
        /\ cum = 0
        /\ fresh = TRUE
        /\ last_snooze = [k \in BreakKinds |-> None]
        /\ reset_since = FALSE
        /\ after_rest = 0
        /\ clock = 0
        /\ begun = None
        /\ OthersIdle

OnActivity ==
    \E a \in Amounts, now \in Instants :
        LET r == on_activity(engine, a, now)
        IN  /\ r.engine.micro_active <= MaxActive
            /\ r.engine.rest_active <= MaxActive
            /\ r.engine.daily_active <= MaxActive
            /\ engine' = r.engine
            /\ events' = r.events
            /\ call' = <<"on_activity", a, now>>
            /\ fresh' = /\ fresh
                        /\ a > 0
                        /\ ~HasType(r.events, "DailyReset")
                        /\ is_none(r.engine.active_break)
            /\ cum' = IF fresh' THEN cum + a ELSE 0
            /\ after_rest' =
                 IF after_rest = 1 /\ a = engine.settings.micro.interval_seconds - 1
                 THEN 2
                 ELSE IF after_rest = 2 /\ a = 1 THEN 3 ELSE 0
            /\ reset_since' =
                 \/ reset_since
                 \/ HasType(r.events, "DailyReset") /\ is_some(last_snooze["DailyLimit"])
            /\ UNCHANGED last_snooze
            /\ UNCHANGED clock_vars
            /\ UNCHANGED other_vars

StartBreak ==
    \E kind \in BreakKinds :
        LET r == start_break(engine, kind)
        IN  /\ engine' = r.engine
            /\ events' = r.events
            /\ call' = <<"start_break", kind>>
            /\ fresh' = FALSE
            /\ cum' = 0
            /\ after_rest' = 0
            /\ UNCHANGED <<last_snooze, reset_since>>
            /\ UNCHANGED clock_vars
            /\ UNCHANGED other_vars

TickBreak ==
    \E elapsed \in Elapsed :
        LET r == tick_break(engine, elapsed)
        IN  /\ engine' = r.engine
            /\ events' = r.events
            /\ call' = <<"tick_break", elapsed>>
            /\ fresh' = FALSE
            /\ cum' = 0
            /\ after_rest' = IF r.events = << <<"BreakCompleted", "Rest">> >> THEN 1 ELSE 0
            /\ UNCHANGED <<last_snooze, reset_since>>
            /\ UNCHANGED clock_vars
            /\ UNCHANGED other_vars

Snooze ==
    \E kind \in BreakKinds, now \in SnoozeInstants :
        LET r == snooze(engine, kind, now)
        IN  /\ engine' = r.engine
            /\ events' = r.event
            /\ call' = <<"snooze", kind, now>>
            /\ fresh' = FALSE
            /\ cum' = 0
            /\ after_rest' = 0
            /\ last_snooze' =
                 [last_snooze EXCEPT ![kind] = Some(now + snooze_seconds_of(engine, kind))]
            /\ reset_since' = IF kind = "DailyLimit" THEN FALSE ELSE reset_since
            /\ UNCHANGED clock_vars
            /\ UNCHANGED other_vars

\* main.rs:545, `*engine.settings_mut() = core_settings.clone()`
UpdateSettings ==
    \E s \in SettingsSet :
        /\ s # engine.settings
        /\ engine' = replace_settings(engine, s)
        /\ events' = <<>>
        /\ call' = <<"settings_mut">>
        /\ fresh' = FALSE
        /\ cum' = 0
        /\ after_rest' = 0
        /\ UNCHANGED <<last_snooze, reset_since>>
        /\ UNCHANGED clock_vars
        /\ UNCHANGED other_vars

Next ==
    \/ OnActivity
    \/ StartBreak
    \/ TickBreak
    \/ Snooze
    \/ UpdateSettings

Spec == Init /\ [][Next]_vars

---------------------------------------------------------------------------
(* The engine under a clock that never goes back, with its two queries *)

\* the timers of Ordered with longer breaks, under Strict, reset at 23:59
Lasting ==
    Settings(BreakTimerSettings(2, 70, 2, TRUE), BreakTimerSettings(3, 90, 2, TRUE),
             DailyLimitSettings(3, 2, 23, 59, TRUE), "Strict")

\* the daily limit alone, reset at 04:00
LimitOnly ==
    Settings(MicroTimer(2, FALSE), RestTimer(3, FALSE),
             DailyLimitSettings(2, 2, 4, 0, TRUE), "Soft")

ClockSettingsSet == {Ordered, Lasting, LimitOnly}

\* one second before 04:00 of day 0 and 04:00 of day 1
ClockInstants == {14399, 100800}
ClockSnoozeInstants == {14399}
\* one second before 04:00 of day 0, two seconds and one second before 04:00
\* of day 1
EtaInstants == {14399, 100798, 100799}
ClockElapsed == {TickStep, DAILY_LIMIT_BREAK_SECONDS}

\* the break that the call began, if it began one
break_started(before, after) ==
    IF is_none(before.active_break) /\ is_some(after.active_break)
    THEN Some([duration |-> unwrap(after.active_break).remaining_seconds,
               ticked |-> 0])
    ELSE begun

InitClock ==
    \E s \in ClockSettingsSet, now \in ClockInstants :
        /\ engine = new(s, now)
        /\ events = <<>>
        /\ call = <<"new", now>>
        /\ clock = now
        /\ begun = None
        /\ cum = 0
        /\ fresh = FALSE
        /\ last_snooze = [k \in BreakKinds |-> None]
        /\ reset_since = FALSE
        /\ after_rest = 0
        /\ OthersIdle

ClockOnActivity ==
    \E a \in Amounts, now \in ClockInstants :
        LET r == on_activity(engine, a, now)
        IN  /\ now >= clock
            /\ r.engine.micro_active <= MaxActive
            /\ r.engine.rest_active <= MaxActive
            /\ r.engine.daily_active <= MaxActive
            /\ engine' = r.engine
            /\ events' = r.events
            /\ call' = <<"on_activity", a, now>>
            /\ clock' = now
            /\ begun' = break_started(engine, r.engine)
            /\ UNCHANGED run_vars
            /\ UNCHANGED other_vars

ClockStartBreak ==
    \E kind \in BreakKinds :
        LET r == start_break(engine, kind)
        IN  /\ engine' = r.engine
            /\ events' = r.events
            /\ call' = <<"start_break", kind>>
            /\ begun' = break_started(engine, r.engine)
            /\ UNCHANGED clock
            /\ UNCHANGED run_vars
            /\ UNCHANGED other_vars

ClockTickBreak ==
    \E elapsed \in ClockElapsed :
        LET r == tick_break(engine, elapsed)
        IN  /\ engine' = r.engine
            /\ events' = r.events
            /\ call' = <<"tick_break", elapsed>>
            /\ begun' =
                 IF is_none(begun) \/ r.events # <<>>
                 THEN None
                 ELSE Some([unwrap(begun) EXCEPT !.ticked = @ + elapsed])
            /\ UNCHANGED clock
            /\ UNCHANGED run_vars
            /\ UNCHANGED other_vars

ClockSnooze ==
    \E kind \in BreakKinds, now \in ClockSnoozeInstants :
        LET r == snooze(engine, kind, now)
        IN  /\ now >= clock
            /\ engine' = r.engine
            /\ events' = r.event
            /\ call' = <<"snooze", kind, now>>
            /\ clock' = now
            /\ UNCHANGED begun
            /\ UNCHANGED run_vars
            /\ UNCHANGED other_vars

ClockUpdateSettings ==
    \E s \in ClockSettingsSet :
        /\ s # engine.settings
        /\ engine' = replace_settings(engine, s)
        /\ events' = <<>>
        /\ call' = <<"settings_mut">>
        /\ UNCHANGED clock_vars
        /\ UNCHANGED other_vars
        /\ UNCHANGED run_vars

\* the query next_break_eta(now); `events` holds the Option it returns
NextBreakEta ==
    \E now \in EtaInstants :
        /\ now >= clock
        /\ events' = next_break_eta(engine, now)
        /\ call' = <<"next_break_eta", now>>
        /\ UNCHANGED engine
        /\ UNCHANGED clock_vars
        /\ UNCHANGED other_vars
        /\ UNCHANGED run_vars

\* the query active_break_info(); `events` holds the Option it returns
ActiveBreakInfo ==
    /\ events' = active_break_info(engine)
    /\ call' = <<"active_break_info">>
    /\ UNCHANGED engine
    /\ UNCHANGED clock_vars
    /\ UNCHANGED other_vars
    /\ UNCHANGED run_vars

NextClock ==
    \/ ClockOnActivity
    \/ ClockStartBreak
    \/ ClockTickBreak
    \/ ClockSnooze
    \/ ClockUpdateSettings
    \/ NextBreakEta
    \/ ActiveBreakInfo

SpecClock == InitClock /\ [][NextClock]_vars

---------------------------------------------------------------------------
(* The engine at the ends of the range of its integer types *)

\* every interval, duration and snooze length at u64::MAX, reset at 04:00
Huge ==
    Settings(BreakTimerSettings(U64_MAX, U64_MAX, U64_MAX, TRUE),
             BreakTimerSettings(U64_MAX, U64_MAX, U64_MAX, TRUE),
             DailyLimitSettings(U64_MAX, U64_MAX, 4, 0, TRUE), "Strict")

WideSettingsSet == {Huge}
\* 0, 04:00 of day 0, i64::MAX, i64::MAX + 1 and u64::MAX
WideInstants == {0, 14400, I64_MAX, I64_MAX + 1, U64_MAX}
WideSnoozeInstants == {0, U64_MAX}
WideAmounts == {0, U64_MAX}
WideElapsed == {0, U64_MAX}
Builds == {"debug", "release"}

\* `now as i64` is not the value of now (timer.rs:275 and timer.rs:281)
cast_wraps(now_local_unix) == as_i64(now_local_unix) # now_local_unix

\* what becomes of a call one of whose arithmetic steps left its range
\* (overflowed) or whose cast changed the value (wrapped): overflow checks are
\* on in a debug build, where the step panics, and off in a release build,
\* where the result wraps
fault_of(overflowed, wrapped) ==
    IF overflowed
    THEN IF build = "debug" THEN "panicked" ELSE "wrapped"
    ELSE IF wrapped THEN "wrapped" ELSE "none"

InitWide ==
    \E s \in WideSettingsSet, now \in WideInstants, b \in Builds :
        /\ build = b
        /\ engine = new(s, now)
        /\ events = <<>>
        /\ call = <<"new", now>>
        /\ fault = fault_of(daily_bucket_overflows(now, reset_offset_seconds(s.daily_limit)),
                            cast_wraps(now))
        /\ cum = 0
        /\ fresh = FALSE
        /\ last_snooze = [k \in BreakKinds |-> None]
        /\ reset_since = FALSE
        /\ after_rest = 0
        /\ clock = 0
        /\ begun = None
        /\ RestIdle

WideOnActivity ==
    \E a \in WideAmounts, now \in WideInstants :
        LET r == on_activity(engine, a, now)
            f == fault_of(daily_bucket_overflows(
                              now, reset_offset_seconds(engine.settings.daily_limit)),
                          cast_wraps(now))
        IN  /\ fault # "panicked"
            /\ fault' = f
            /\ engine' = IF f = "panicked" THEN engine ELSE r.engine
            /\ events' = IF f = "panicked" THEN <<>> ELSE r.events
            /\ call' = <<"on_activity", a, now>>
            /\ UNCHANGED <<build, run_vars, clock_vars, rest_vars>>

WideStartBreak ==
    \E kind \in BreakKinds :
        LET r == start_break(engine, kind)
        IN  /\ fault # "panicked"
            /\ fault' = "none"
            /\ engine' = r.engine
            /\ events' = r.events
            /\ call' = <<"start_break", kind>>
            /\ UNCHANGED <<build, run_vars, clock_vars, rest_vars>>

WideTickBreak ==
    \E elapsed \in WideElapsed :
        LET r == tick_break(engine, elapsed)
        IN  /\ fault # "panicked"
            /\ fault' = "none"
            /\ engine' = r.engine
            /\ events' = r.events
            /\ call' = <<"tick_break", elapsed>>
            /\ UNCHANGED <<build, run_vars, clock_vars, rest_vars>>

WideSnooze ==
    \E kind \in BreakKinds, now \in WideSnoozeInstants :
        LET r == snooze(engine, kind, now)
        IN  /\ fault # "panicked"
            /\ fault' = "none"
            /\ engine' = r.engine
            /\ events' = r.event
            /\ call' = <<"snooze", kind, now>>
            /\ UNCHANGED <<build, run_vars, clock_vars, rest_vars>>

\* the reset distance is computed when no break is active and the daily limit
\* is enabled (timer.rs:77 and timer.rs:103)
WideNextBreakEta ==
    \E now \in WideInstants :
        LET reached == /\ is_none(engine.active_break)
                       /\ engine.settings.daily_limit.enabled
            f == fault_of(reached /\ seconds_until_next_reset_overflows(
                              now, reset_offset_seconds(engine.settings.daily_limit)),
                          reached /\ cast_wraps(now))
        IN  /\ fault # "panicked"
            /\ fault' = f
            /\ events' = IF f = "panicked" THEN <<>> ELSE next_break_eta(engine, now)
            /\ call' = <<"next_break_eta", now>>
            /\ UNCHANGED <<engine, build, run_vars, clock_vars, rest_vars>>

NextWide ==
    \/ WideOnActivity
    \/ WideStartBreak
    \/ WideTickBreak
    \/ WideSnooze
    \/ WideNextBreakEta

SpecWide == InitWide /\ [][NextWide]_vars

---------------------------------------------------------------------------
(* analytics.rs: AnalyticsStore *)

Outcomes == {"Completed", "Skipped", "Snoozed"}

DailyAggregate(active, micro, rest, hits, skips) ==
    [active_seconds |-> active, micro_done |-> micro, rest_done |-> rest,
     daily_limit_hits |-> hits, skipped |-> skips]

DailyAggregate_default == DailyAggregate(0, 0, 0, 0, 0)

WeeklySummary(active, micro, rest, hits, skips) ==
    [total_active_seconds |-> active, micro_done |-> micro, rest_done |-> rest,
     daily_limit_hits |-> hits, skipped |-> skips]

WeeklySummary_default == WeeklySummary(0, 0, 0, 0, 0)

\* BTreeMap::entry(day).or_default(): the map with an all-zero aggregate put
\* under `day` when the map has none
or_default(store, day_index) ==
    IF day_index \in DOMAIN store
    THEN store
    ELSE [d \in DOMAIN store \cup {day_index} |->
            IF d = day_index THEN DailyAggregate_default ELSE store[d]]

record_activity(store, day_index, seconds) ==
    LET entry == or_default(store, day_index)
    IN  [entry EXCEPT ![day_index].active_seconds = saturating_add(@, seconds)]

\* variant: a snooze is counted as a skip
record_break_counting_snoozed(store, day_index, kind, outcome) ==
    LET entry == or_default(store, day_index)
    IN  CASE kind = "Micro" /\ outcome = "Completed" ->
                [entry EXCEPT ![day_index].micro_done = @ + 1]
          [] kind = "Rest" /\ outcome = "Completed" ->
                [entry EXCEPT ![day_index].rest_done = @ + 1]
          [] kind = "DailyLimit" /\ outcome = "Completed" ->
                [entry EXCEPT ![day_index].daily_limit_hits = @ + 1]
          [] outcome = "Skipped" ->
                [entry EXCEPT ![day_index].skipped = @ + 1]
          [] outcome = "Snoozed" ->
                [entry EXCEPT ![day_index].skipped = @ + 1]

\* the counters are u32 and go up by one a call: with the number of calls
\* capped by MaxRecords they stay far from u32::MAX
record_break(store, day_index, kind, outcome) ==
    LET entry == or_default(store, day_index)
    IN  CASE kind = "Micro" /\ outcome = "Completed" ->
                [entry EXCEPT ![day_index].micro_done = @ + 1]
          [] kind = "Rest" /\ outcome = "Completed" ->
                [entry EXCEPT ![day_index].rest_done = @ + 1]
          [] kind = "DailyLimit" /\ outcome = "Completed" ->
                [entry EXCEPT ![day_index].daily_limit_hits = @ + 1]
          [] outcome = "Skipped" ->
                [entry EXCEPT ![day_index].skipped = @ + 1]
          [] outcome = "Snoozed" -> entry

\* a + b on u64 without overflow checks: the sum modulo 2^w
wrapping_add(a, b) ==
    IF a > U64_MAX - b THEN a - (U64_MAX - b) - 1 ELSE a + b

add_overflows(a, b) == a > U64_MAX - b

\* analytics.rs:49-55, one turn of the loop: `acc` is the summary so far and
\* whether one of its `+=` has overflowed
add_aggregate(acc, aggregate) ==
    [summary |->
        WeeklySummary(
            wrapping_add(acc.summary.total_active_seconds, aggregate.active_seconds),
            acc.summary.micro_done + aggregate.micro_done,
            acc.summary.rest_done + aggregate.rest_done,
            acc.summary.daily_limit_hits + aggregate.daily_limit_hits,
            acc.summary.skipped + aggregate.skipped),
     overflowed |->
        \/ acc.overflowed
        \/ add_overflows(acc.summary.total_active_seconds, aggregate.active_seconds)]

\* by_day.range(day..=end), in ascending order of the keys
RECURSIVE sum_range(_, _, _, _)
sum_range(store, day, end, acc) ==
    IF day > end
    THEN acc
    ELSE sum_range(store, day + 1, end,
                   IF day \in DOMAIN store THEN add_aggregate(acc, store[day]) ELSE acc)

\* variant: the window opens a day earlier
summarize_week_ending_eight_days(store, end_day_index) ==
    LET start == end_day_index - 7
    IN  sum_range(store, start, end_day_index,
                  [summary |-> WeeklySummary_default, overflowed |-> FALSE])

summarize_week_ending(store, end_day_index) ==
    LET start == end_day_index - 6
    IN  sum_range(store, start, end_day_index,
                  [summary |-> WeeklySummary_default, overflowed |-> FALSE])

\* what the caller gets: the summary, or nothing when the call panicked
summary_returned(store, end_day_index) ==
    LET r == summarize_week_ending(store, end_day_index)
    IN  IF fault_of(r.overflowed, FALSE) = "panicked" THEN None ELSE Some(r.summary)

MaxRecords == 3
\* day 4 is a week before day 11, day 5 opens and day 11 closes the week
\* ending on day 11, day 12 follows it
DayIndexes == {4, 5, 11, 12}
EndDays == {11, 12}
ActivitySeconds == {120, U64_MAX}

InitAnalytics ==
    \E b \in Builds :
        /\ build = b
        /\ fault = "none"
        /\ by_day = AnalyticsStore_default
        /\ recorded = 0
        /\ ProfilesIdle
        /\ HostIdle
        /\ PollIdle
        /\ RuntimeIdle
        /\ engine = new(Ordered, 14399)
        /\ events = <<>>
        /\ call = <<"default">>
        /\ cum = 0
        /\ fresh = FALSE
        /\ last_snooze = [k \in BreakKinds |-> None]
        /\ reset_since = FALSE
        /\ after_rest = 0
        /\ clock = 0
        /\ begun = None

RecordActivity ==
    \E day \in DayIndexes, seconds \in ActivitySeconds :
        /\ fault # "panicked"
        /\ recorded < MaxRecords
        /\ by_day' = record_activity(by_day, day, seconds)
        /\ recorded' = recorded + 1
        /\ events' = <<>>
        /\ call' = <<"record_activity", day, seconds>>
        /\ fault' = "none"
        /\ UNCHANGED <<engine, build, run_vars, clock_vars, profile_vars, host_vars, poll_vars, runtime_vars>>

RecordBreak ==
    \E day \in DayIndexes, kind \in BreakKinds, outcome \in Outcomes :
        /\ fault # "panicked"
        /\ recorded < MaxRecords
        /\ by_day' = record_break(by_day, day, kind, outcome)
        /\ recorded' = recorded + 1
        /\ events' = <<>>
        /\ call' = <<"record_break", day, kind, outcome>>
        /\ fault' = "none"
        /\ UNCHANGED <<engine, build, run_vars, clock_vars, profile_vars, host_vars, poll_vars, runtime_vars>>

SummarizeWeekEnding ==
    \E end \in EndDays :
        /\ fault # "panicked"
        /\ events' = summary_returned(by_day, end)
        /\ fault' = fault_of(summarize_week_ending(by_day, end).overflowed, FALSE)
        /\ call' = <<"summarize_week_ending", end>>
        /\ UNCHANGED <<engine, build, run_vars, clock_vars, analytics_vars, profile_vars, host_vars, poll_vars, runtime_vars>>

NextAnalytics ==
    \/ RecordActivity
    \/ RecordBreak
    \/ SummarizeWeekEnding

SpecAnalytics == InitAnalytics /\ [][NextAnalytics]_vars

---------------------------------------------------------------------------
(* profile.rs: ProfileStore *)

Profile(id, name, settings) == [id |-> id, name |-> name, settings |-> settings]

\* the ids in the order of String's Ord, which is the order of the BTreeMap
KeyOrder == <<"gaming", "office", "travel">>
ProfileIds == {KeyOrder[i] : i \in DOMAIN KeyOrder}
key_rank(id) == CHOOSE i \in DOMAIN KeyOrder : KeyOrder[i] = id

\* profiles.keys().next().cloned()
first_key(profiles) ==
    IF DOMAIN profiles = {}
    THEN None
    ELSE Some(CHOOSE k \in DOMAIN profiles :
                 \A j \in DOMAIN profiles : key_rank(k) <= key_rank(j))

\* profiles.keys().next_back().cloned()
last_key(profiles) ==
    IF DOMAIN profiles = {}
    THEN None
    ELSE Some(CHOOSE k \in DOMAIN profiles :
                 \A j \in DOMAIN profiles : key_rank(j) <= key_rank(k))

\* BTreeMap::insert
map_insert(map, key, value) ==
    [k \in DOMAIN map \cup {key} |-> IF k = key THEN value ELSE map[k]]

\* BTreeMap::remove: the map without the key
map_remove(map, key) == [k \in DOMAIN map \ {key} |-> map[k]]

\* BTreeMap::get
map_get(map, key) == IF key \in DOMAIN map THEN Some(map[key]) ELSE None

\* variant: every inserted profile becomes the active one
upsert_always_activating(store, profile) ==
    [profiles |-> map_insert(store.profiles, profile.id, profile),
     active_id |-> Some(profile.id)]

upsert(store, profile) ==
    LET id == profile.id
    IN  [profiles |-> map_insert(store.profiles, id, profile),
         active_id |-> IF is_none(store.active_id) THEN Some(id) ELSE store.active_id]

\* variant: the active selection survives the removal of its profile
remove_keeping_active(store, id) ==
    [store |-> [profiles |-> map_remove(store.profiles, id),
                active_id |-> store.active_id],
     removed |-> map_get(store.profiles, id)]

\* variant: the highest remaining key takes over
remove_then_last_key(store, id) ==
    LET removed == map_get(store.profiles, id)
        profiles == map_remove(store.profiles, id)
    IN  [store |-> [profiles |-> profiles,
                    active_id |-> IF store.active_id = Some(id)
                                  THEN last_key(profiles)
                                  ELSE store.active_id],
         removed |-> removed]

remove(store, id) ==
    LET removed == map_get(store.profiles, id)
        profiles == map_remove(store.profiles, id)
    IN  [store |-> [profiles |-> profiles,
                    active_id |-> IF store.active_id = Some(id)
                                  THEN first_key(profiles)
                                  ELSE store.active_id],
         removed |-> removed]

\* variant: the id becomes active whether or not the store holds it
activate_unchecked(store, id) ==
    [store |-> [store EXCEPT !.active_id = Some(id)],
     ok |-> id \in DOMAIN store.profiles]

activate(store, id) ==
    IF id \in DOMAIN store.profiles
    THEN [store |-> [store EXCEPT !.active_id = Some(id)], ok |-> TRUE]
    ELSE [store |-> store, ok |-> FALSE]

active(store) ==
    IF is_none(store.active_id)
    THEN None
    ELSE map_get(store.profiles, unwrap(store.active_id))

ProfileNames == {"Office", "Gaming"}
ProfileInputs == {Profile(id, name, Ordered) : id \in ProfileIds, name \in ProfileNames}

InitProfiles ==
    /\ profile_store = ProfileStore_default
    /\ was_active = <<>>
    /\ build = "release"
    /\ fault = "none"
    /\ AnalyticsIdle
    /\ HostIdle
    /\ PollIdle
    /\ RuntimeIdle
    /\ engine = new(Ordered, 14399)
    /\ events = <<>>
    /\ call = <<"default">>
    /\ cum = 0
    /\ fresh = FALSE
    /\ last_snooze = [k \in BreakKinds |-> None]
    /\ reset_since = FALSE
    /\ after_rest = 0
    /\ clock = 0
    /\ begun = None

profile_frame ==
    UNCHANGED <<engine, build, fault, run_vars, clock_vars, analytics_vars, host_vars, poll_vars, runtime_vars>>

Upsert ==
    \E profile \in ProfileInputs :
        /\ profile_store' = upsert(profile_store, profile)
        /\ was_active' = profile_store.active_id
        /\ events' = <<>>
        /\ call' = <<"upsert", profile>>
        /\ profile_frame

Remove ==
    \E id \in ProfileIds :
        LET r == remove(profile_store, id)
        IN  /\ profile_store' = r.store
            /\ was_active' = profile_store.active_id
            /\ events' = r.removed
            /\ call' = <<"remove", id>>
            /\ profile_frame

Activate ==
    \E id \in ProfileIds :
        LET r == activate(profile_store, id)
        IN  /\ profile_store' = r.store
            /\ was_active' = profile_store.active_id
            /\ events' = r.ok
            /\ call' = <<"activate", id>>
            /\ profile_frame

Active ==
    /\ events' = active(profile_store)
    /\ was_active' = profile_store.active_id
    /\ call' = <<"active">>
    /\ UNCHANGED profile_store
    /\ profile_frame

NextProfiles ==
    \/ Upsert
    \/ Remove
    \/ Activate
    \/ Active

SpecProfiles == InitProfiles /\ [][NextProfiles]_vars

---------------------------------------------------------------------------
(* apps/desktop/src-tauri/src/main.rs: runtime_loop and the commands that   *)
(* send it RuntimeControl messages.  The loop stands at "drain" (about to   *)
(* call rx.try_recv()), at "tick" (the queue was found empty and `running`  *)
(* holds: about to read the clock and advance the engine) or at "done"      *)
(* (left the loop).  Saving to disk, notifications and the overlay are not  *)
(* part of the model.                                                       *)

Stop == <<"Stop">>
UpdateSettingsMsg(core) == <<"UpdateSettings", core>>
StartBreakMsg(kind) == <<"StartBreak", kind>>
StartPending == <<"StartPending">>
SnoozePending == <<"SnoozePending">>

\* AppState::add_active_seconds
add_active_seconds(stats, seconds) ==
    [stats EXCEPT !.total_active_seconds = saturating_add(@, seconds)]

\* AppState::record_completed_break
record_completed_break(stats, kind) ==
    CASE kind = "Micro" -> [stats EXCEPT !.micro_done = saturating_add(@, 1)]
      [] kind = "Rest" -> [stats EXCEPT !.rest_done = saturating_add(@, 1)]
      [] kind = "DailyLimit" -> [stats EXCEPT !.daily_limit_hits = saturating_add(@, 1)]

\* AppState::record_skipped_break
record_skipped_break(stats) == [stats EXCEPT !.skipped = saturating_add(@, 1)]

\* main.rs:627-718, one turn of `for event in events`
react(h, event) ==
    CASE event[1] = "BreakDue" -> [h EXCEPT !.pending_break = Some(event[2])]
      [] event[1] = "BreakStarted" -> [h EXCEPT !.pending_break = None]
      [] event[1] = "BreakCompleted" ->
            [h EXCEPT !.weekly_stats = record_completed_break(@, event[2])]
      [] OTHER -> h

RECURSIVE react_all(_, _)
react_all(h, evs) ==
    IF evs = <<>> THEN h ELSE react_all(react(h, Head(evs)), Tail(evs))

\* variant: the loop goes on ticking after Stop
after_drain_still_ticking(running) == "tick"

\* main.rs:613-615: where the loop goes when try_recv finds the queue empty
after_drain(running) == IF ~running THEN "done" ELSE "tick"

\* micro every 2 s and rest every 3 s of activity, breaks of 2 s, offered
HostSoft ==
    Settings(BreakTimerSettings(2, 2, 2, TRUE), BreakTimerSettings(3, 2, 2, TRUE),
             DailyLimitSettings(3, 2, 4, 0, FALSE), "Soft")

\* the same under Strict
HostStrict ==
    Settings(BreakTimerSettings(2, 2, 2, TRUE), BreakTimerSettings(3, 2, 2, TRUE),
             DailyLimitSettings(3, 2, 4, 0, FALSE), "Strict")

HostSettingsSet == {HostSoft, HostStrict}
\* what unix_now() returns
HostInstants == {100800, 100803}
\* what the commands send while the runtime runs
HostMessages ==
    {UpdateSettingsMsg(HostStrict), StartBreakMsg("Rest"), StartPending, SnoozePending}
MaxSent == 3
MaxHostSeconds == 4

\* start_runtime (main.rs:906-945) and the head of runtime_loop (main.rs:526-535)
InitHost ==
    \E core \in HostSettingsSet, now \in HostInstants :
        /\ engine = new(core, now)
        /\ clock = now
        /\ host = [pc |-> "drain", running |-> TRUE, pending_break |-> None,
                   core_settings |-> core, weekly_stats |-> WeeklyStatsDto_default]
        /\ queue = <<>>
        /\ tx = Some("tx")
        /\ sent = 0
        /\ events = <<>>
        /\ call = <<"new", now>>
        /\ build = "release"
        /\ fault = "none"
        /\ AnalyticsIdle
        /\ ProfilesIdle
        /\ PollIdle
        /\ RuntimeIdle
        /\ cum = 0
        /\ fresh = FALSE
        /\ last_snooze = [k \in BreakKinds |-> None]
        /\ reset_since = FALSE
        /\ after_rest = 0
        /\ begun = None

host_frame ==
    UNCHANGED <<build, fault, run_vars, begun, analytics_vars, profile_vars,
                poll_vars, runtime_vars>>

\* the commands update_settings, start_pending_break, snooze_pending_break and
\* trigger_break: each sends while it holds the runtime mutex and finds a sender
Send ==
    \E message \in HostMessages :
        /\ is_some(tx)
        /\ sent < MaxSent
        /\ queue' = Append(queue, message)
        /\ sent' = sent + 1
        /\ UNCHANGED <<engine, events, call, clock, host, tx>>
        /\ host_frame

\* stop_runtime (main.rs:951-960): takes the sender and sends Stop with it
SendStop ==
    /\ is_some(tx)
    /\ tx' = None
    /\ queue' = Append(queue, Stop)
    /\ UNCHANGED <<engine, events, call, clock, host, sent>>
    /\ host_frame

\* try_recv returned a message
Received(message) ==
    /\ host.pc = "drain"
    /\ queue # <<>>
    /\ Head(queue) = message
    /\ queue' = Tail(queue)

HandleStop ==
    /\ Received(Stop)
    /\ host' = [host EXCEPT !.running = FALSE]
    /\ call' = <<"none">>
    /\ events' = <<>>
    /\ UNCHANGED <<engine, clock, tx, sent>>
    /\ host_frame

HandleUpdateSettings ==
    \E core \in HostSettingsSet :
        /\ Received(UpdateSettingsMsg(core))
        /\ host' = [host EXCEPT !.core_settings = core]
        /\ engine' = replace_settings(engine, core)
        /\ call' = <<"settings_mut", core>>
        /\ events' = <<>>
        /\ UNCHANGED <<clock, tx, sent>>
        /\ host_frame

HandleStartBreak ==
    \E kind \in BreakKinds :
        LET r == start_break(engine, kind)
        IN  /\ Received(StartBreakMsg(kind))
            /\ host' = [host EXCEPT !.pending_break = None]
            /\ engine' = r.engine
            /\ events' = r.events
            /\ call' = <<"start_break", kind>>
            /\ UNCHANGED <<clock, tx, sent>>
            /\ host_frame

HandleStartPending ==
    /\ Received(StartPending)
    /\ IF is_some(host.pending_break)
       THEN LET kind == unwrap(host.pending_break)
                r == start_break(engine, kind)
            IN  /\ host' = [host EXCEPT !.pending_break = None]
                /\ engine' = r.engine
                /\ events' = r.events
                /\ call' = <<"start_break", kind>>
       ELSE /\ call' = <<"none">>
            /\ events' = <<>>
            /\ UNCHANGED <<engine, host>>
    /\ UNCHANGED <<clock, tx, sent>>
    /\ host_frame

\* variant: the block level is not looked at
may_snooze_under_strict(core_settings, pending_break) == is_some(pending_break)

\* main.rs:592-593, the condition of the SnoozePending arm
may_snooze(core_settings, pending_break) ==
    core_settings.block_level # "Strict" /\ is_some(pending_break)

HandleSnoozePending ==
    /\ Received(SnoozePending)
    /\ IF may_snooze(host.core_settings, host.pending_break)
       THEN \E now \in HostInstants :
                LET kind == unwrap(host.pending_break)
                    r == snooze(engine, kind, now)
                IN  /\ now >= clock
                    /\ clock' = now
                    /\ engine' = r.engine
                    /\ events' = r.event
                    /\ call' = <<"snooze", kind, now>>
                    /\ host' = [host EXCEPT
                                   !.pending_break = None,
                                   !.weekly_stats = record_skipped_break(@)]
       ELSE /\ call' = <<"none">>
            /\ events' = <<>>
            /\ UNCHANGED <<engine, host, clock>>
    /\ UNCHANGED <<tx, sent>>
    /\ host_frame

\* try_recv returned Err: the inner loop ends, and the outer one if Stop came
QueueEmpty ==
    /\ host.pc = "drain"
    /\ queue = <<>>
    /\ host' = [host EXCEPT !.pc = after_drain(host.running)]
    /\ UNCHANGED <<engine, events, call, clock, queue, tx, sent>>
    /\ host_frame

\* main.rs:617-757: the engine is advanced, the events are handled, the loop
\* sleeps for a second and goes back to the queue
Tick ==
    \E now \in HostInstants :
        LET in_break == is_some(active_break_info(engine))
            r == IF in_break THEN tick_break(engine, 1) ELSE on_activity(engine, 1, now)
            counted == IF in_break
                       THEN host
                       ELSE [host EXCEPT !.weekly_stats = add_active_seconds(@, 1)]
        IN  /\ host.pc = "tick"
            /\ now >= clock
            /\ clock' = now
            /\ in_break \/ host.weekly_stats.total_active_seconds < MaxHostSeconds
            /\ engine' = r.engine
            /\ events' = r.events
            /\ call' = IF in_break THEN <<"tick_break", 1>> ELSE <<"on_activity", 1, now>>
            /\ host' = [react_all(counted, r.events) EXCEPT !.pc = "drain"]
            /\ UNCHANGED <<queue, tx, sent>>
            /\ host_frame

\* the steps of the inner loop, `while let Ok(message) = rx.try_recv()`
DrainStep ==
    \/ HandleStop
    \/ HandleUpdateSettings
    \/ HandleStartBreak
    \/ HandleStartPending
    \/ HandleSnoozePending
    \/ QueueEmpty

NextHost ==
    \/ Send
    \/ SendStop
    \/ DrainStep
    \/ Tick

\* the loop runs on a thread of its own, which the scheduler does not starve:
\* try_recv never blocks, so a loop standing at the queue takes its step
SpecHost == InitHost /\ [][NextHost]_vars /\ WF_vars(DrainStep)

---------------------------------------------------------------------------
(* Vocabulary of the properties *)

IsCall(c, name) == c[1] = name
\* arguments of an on_activity call
AmountOf(c) == c[2]
NowOf(c) == c[3]

BreakDue(kind) == <<"BreakDue", kind>>
BreakStarted(kind) == <<"BreakStarted", kind>>
BreakCompleted(kind) == <<"BreakCompleted", kind>>
DailyReset == <<"DailyReset">>

\* a kind qualifies as due in engine e at instant now
Qualifies(e, kind, now) ==
    /\ EnabledOf(e, kind)
    /\ CounterOf(e, kind) >= IntervalOf(e, kind)
    /\ \/ SnoozeOf(e, kind) = <<>>
       \/ now >= SnoozeOf(e, kind)[1]

Higher(kind) == {j \in BreakKinds : kind_priority(j) < kind_priority(kind)}

---------------------------------------------------------------------------
(* C1 *)

\* the last call is an on_activity of a run of positive on_activity calls on a
\* fresh engine, in one reset day, with Micro enabled and breaks not forced
FreshMicroRun ==
    /\ fresh
    /\ IsCall(call, "on_activity")
    /\ engine.settings.micro.enabled
    /\ engine.settings.block_level # "Strict"

\* C1 as stated: in such a run no call returns any BreakDue while the total is
\* below the micro interval, and the call that first reaches it returns exactly
\* one BreakDue(Micro).
C1_NoDueBelowInterval ==
    FreshMicroRun =>
        /\ cum < engine.settings.micro.interval_seconds =>
              ~HasType(events, "BreakDue")
        /\ (/\ cum >= engine.settings.micro.interval_seconds
            /\ cum - AmountOf(call) < engine.settings.micro.interval_seconds) =>
              /\ CountType(events, "BreakDue") = 1
              /\ HasEvent(events, BreakDue("Micro"))

\* C1 amended: in such a run no call returns BreakDue(Micro) while the total is
\* below the micro interval (a call may return a BreakDue for Rest or DailyLimit
\* when that kind's interval or limit is lower), and the call at which the total
\* first reaches or exceeds the interval returns exactly one BreakDue, which is
\* BreakDue(Micro).
C1_MicroDueAtInterval ==
    FreshMicroRun =>
        /\ cum < engine.settings.micro.interval_seconds =>
              ~HasEvent(events, BreakDue("Micro"))
        /\ (/\ cum >= engine.settings.micro.interval_seconds
            /\ cum - AmountOf(call) < engine.settings.micro.interval_seconds) =>
              /\ CountType(events, "BreakDue") = 1
              /\ HasEvent(events, BreakDue("Micro"))

\* the second call of a run brings the total to the interval
C1_Witness ==
    /\ FreshMicroRun
    /\ cum - AmountOf(call) > 0
    /\ cum - AmountOf(call) < engine.settings.micro.interval_seconds
    /\ cum >= engine.settings.micro.interval_seconds
    /\ events = << BreakDue("Micro") >>

---------------------------------------------------------------------------
(* C2 *)

\* C2: under Strict every BreakDue(kind) an on_activity call returns is followed
\* at once by BreakStarted(kind) in the same list and a break of that kind is
\* active afterwards; under Soft or Medium on_activity returns no BreakStarted
\* and never turns "no active break" into an active break.
C2_StrictAutostart ==
    [][IsCall(call', "on_activity") =>
        IF engine'.settings.block_level = "Strict"
        THEN \A i \in 1..Len(events') :
                events'[i][1] = "BreakDue" =>
                    /\ i < Len(events')
                    /\ events'[i + 1] = BreakStarted(events'[i][2])
                    /\ is_some(engine'.active_break)
                    /\ unwrap(engine'.active_break).kind = events'[i][2]
        ELSE /\ ~HasType(events', "BreakStarted")
             /\ is_none(engine.active_break) => is_none(engine'.active_break)
      ]_vars

\* a Strict call that returned BreakDue(Rest), BreakStarted(Rest)
C2_Witness ==
    /\ IsCall(call, "on_activity")
    /\ engine.settings.block_level = "Strict"
    /\ events = << BreakDue("Rest"), BreakStarted("Rest") >>
    /\ is_some(engine.active_break)

---------------------------------------------------------------------------
(* C3 *)

\* the end t + S of the latest snooze of a kind is still ahead of `now`
SnoozeAhead(kind, now) ==
    is_some(last_snooze[kind]) /\ now < unwrap(last_snooze[kind])
SnoozeOver(kind, now) ==
    is_some(last_snooze[kind]) /\ now >= unwrap(last_snooze[kind])

\* an on_activity(a > 0, now) call made with no break active after which the
\* kind is enabled, at or above its interval, and no higher kind qualifies
DueAfterSnooze(kind) ==
    /\ AmountOf(call') > 0
    /\ is_none(engine.active_break)
    /\ SnoozeOver(kind, NowOf(call'))
    /\ EnabledOf(engine', kind)
    /\ CounterOf(engine', kind) >= IntervalOf(engine', kind)
    /\ \A j \in Higher(kind) : ~Qualifies(engine', j, NowOf(call'))

\* C3 as stated: after snooze(kind, t), every on_activity(a, now) with
\* now < t + S returns no BreakDue(kind), and an on_activity(a > 0, now) with
\* now >= t + S returns BreakDue(kind) when the kind is otherwise due.
C3_SnoozedUntilEnd ==
    [][IsCall(call', "on_activity") =>
        \A kind \in BreakKinds :
            /\ SnoozeAhead(kind, NowOf(call')) => ~HasEvent(events', BreakDue(kind))
            /\ DueAfterSnooze(kind) => HasEvent(events', BreakDue(kind))
      ]_vars

\* C3 amended: the same, except that a daily reset ends the DailyLimit snooze:
\* for DailyLimit the suppression holds only while no DailyReset has been
\* emitted since the snooze (by this call or an earlier one).
C3_SnoozedUntilEndOrReset ==
    [][IsCall(call', "on_activity") =>
        \A kind \in BreakKinds :
            /\ (/\ SnoozeAhead(kind, NowOf(call'))
                /\ kind = "DailyLimit" => ~reset_since') =>
                    ~HasEvent(events', BreakDue(kind))
            /\ DueAfterSnooze(kind) => HasEvent(events', BreakDue(kind))
      ]_vars

\* Micro is at its interval and still snoozed, so the call reports Rest instead
C3_Witness ==
    /\ IsCall(call, "on_activity")
    /\ AmountOf(call) > 0
    /\ SnoozeAhead("Micro", NowOf(call))
    /\ engine.settings.micro.enabled
    /\ engine.micro_active >= engine.settings.micro.interval_seconds
    /\ events = << BreakDue("Rest") >>

---------------------------------------------------------------------------
(* C4 *)

\* instant of a new or on_activity call
InstantOf(c) == IF IsCall(c, "new") THEN c[2] ELSE c[3]

\* C4 as stated: when an on_activity call directly follows new or another
\* on_activity call, at a later instant, it returns exactly one DailyReset if
\* the two instants lie in different reset days (a boundary k*86400 + offset
\* is between them) and no DailyReset if they lie in the same reset day.
C4_ResetOnBoundary ==
    [][(/\ IsCall(call', "on_activity")
        /\ IsCall(call, "new") \/ IsCall(call, "on_activity")
        /\ InstantOf(call) < InstantOf(call')) =>
          LET offset == reset_offset_seconds(engine.settings.daily_limit)
          IN  IF ResetDay(InstantOf(call), offset) # ResetDay(InstantOf(call'), offset)
              THEN CountType(events', "DailyReset") = 1
              ELSE CountType(events', "DailyReset") = 0
      ]_vars

---------------------------------------------------------------------------
(* C5 *)

\* C5: an on_activity(a, now) call that returns DailyReset clears the
\* DailyLimit snooze and leaves the Micro and Rest snoozes and an active break
\* as they were; with no break active, micro and rest become their previous
\* values plus a and daily becomes a, otherwise micro and rest keep their
\* values and daily is 0; so the call returns BreakDue(DailyLimit) only if a
\* alone reaches the limit.
C5_ResetZeroesDailyOnly ==
    [][(IsCall(call', "on_activity") /\ HasEvent(events', DailyReset)) =>
        /\ engine'.daily_snooze_until = None
        /\ engine'.micro_snooze_until = engine.micro_snooze_until
        /\ engine'.rest_snooze_until = engine.rest_snooze_until
        /\ is_some(engine.active_break) => engine'.active_break = engine.active_break
        /\ IF is_none(engine.active_break)
           THEN /\ engine'.micro_active = engine.micro_active + AmountOf(call')
                /\ engine'.rest_active = engine.rest_active + AmountOf(call')
                /\ engine'.daily_active = AmountOf(call')
           ELSE /\ engine'.micro_active = engine.micro_active
                /\ engine'.rest_active = engine.rest_active
                /\ engine'.daily_active = 0
        /\ HasEvent(events', BreakDue("DailyLimit")) =>
              AmountOf(call') >= engine'.settings.daily_limit.limit_seconds
      ]_vars

\* a resetting call that found the limit reached, a DailyLimit snooze pending
\* and micro activity from the previous day, and reported no DailyLimit
C5_Witness ==
    /\ IsCall(call, "on_activity")
    /\ HasEvent(events, DailyReset)
    /\ ~HasEvent(events, BreakDue("DailyLimit"))
    /\ AmountOf(call) > 0
    /\ engine.daily_active = AmountOf(call)
    /\ engine.micro_active > AmountOf(call)
    /\ is_some(last_snooze["DailyLimit"])
    /\ is_some(engine.micro_snooze_until)

---------------------------------------------------------------------------
(* C6 *)

\* discharge rule on a completing tick_break
DischargeRule ==
    \A kind \in BreakKinds :
        (IsCall(call', "tick_break") /\ events' = << BreakCompleted(kind) >>) =>
            /\ is_none(engine'.active_break)
            /\ engine'.micro_active = 0
            /\ engine'.rest_active = IF kind = "Micro" THEN engine.rest_active ELSE 0
            /\ engine'.daily_active =
                 IF kind = "DailyLimit" THEN 0 ELSE engine.daily_active

\* C6 as stated, its consequence: of the two calls on_activity(I-1, .),
\* on_activity(1, .) made right after BreakCompleted(Rest), the first returns
\* no BreakDue and the second returns BreakDue(Micro).
C6_AfterRestCompleted ==
    /\ after_rest = 2 => ~HasType(events, "BreakDue")
    /\ after_rest = 3 => HasEvent(events, BreakDue("Micro"))

\* C6 amended: the discharge rule holds as stated.  Of the two calls
\* on_activity(I-1, .), on_activity(1, .) made right after BreakCompleted(Rest),
\* the first returns no BreakDue(Micro) (it may return BreakDue for Rest or
\* DailyLimit when that kind is due), and the second returns BreakDue(Micro)
\* provided Micro is enabled and not snoozed at its instant and the first call
\* did not start a break.
C6_DischargeRule ==
    [][/\ DischargeRule
       /\ after_rest' = 2 => ~HasEvent(events', BreakDue("Micro"))
       /\ (/\ after_rest' = 3
           /\ is_none(engine.active_break)
           /\ engine'.settings.micro.enabled
           /\ \/ engine'.micro_snooze_until = None
              \/ NowOf(call') >= engine'.micro_snooze_until[1]) =>
                HasEvent(events', BreakDue("Micro"))
      ]_vars

\* the second call after a completed Rest break reports Micro while the daily
\* counter, which Rest does not discharge, is still above zero
C6_Witness ==
    /\ after_rest = 3
    /\ HasEvent(events, BreakDue("Micro"))
    /\ engine.micro_active = engine.settings.micro.interval_seconds
    /\ engine.rest_active = engine.micro_active
    /\ engine.daily_active > engine.rest_active

---------------------------------------------------------------------------
(* C7 *)

CounterGrew ==
    \/ engine'.micro_active > engine.micro_active
    \/ engine'.rest_active > engine.rest_active
    \/ engine'.daily_active > engine.daily_active

\* C7: an on_activity call made while a break is active increases no counter,
\* leaves the active break as it was and returns nothing or exactly
\* [DailyReset]; and a counter grows only in an on_activity call made with no
\* break active.
C7_NoAdvanceDuringBreak ==
    [][/\ (IsCall(call', "on_activity") /\ is_some(engine.active_break)) =>
            /\ engine'.micro_active = engine.micro_active
            /\ engine'.rest_active = engine.rest_active
            /\ engine'.daily_active \in {engine.daily_active, 0}
            /\ engine'.active_break = engine.active_break
            /\ events' \in {<<>>, << DailyReset >>}
       /\ CounterGrew => (IsCall(call', "on_activity") /\ is_none(engine.active_break))
      ]_vars

\* a call with a positive amount that met an active break while a kind was due
C7_Witness ==
    /\ IsCall(call, "on_activity")
    /\ AmountOf(call) > 0
    /\ is_some(engine.active_break)
    /\ ~HasType(events, "BreakStarted")
    /\ \E kind \in BreakKinds : Qualifies(engine, kind, NowOf(call))

---------------------------------------------------------------------------
(* C8 *)

\* C8: on_activity(0, now) raises no counter (micro and rest keep their values,
\* daily keeps its value or is zeroed by the reset), changes neither the Micro
\* nor the Rest snooze nor the active break, and returns nothing or exactly
\* [DailyReset].
C8_ZeroActivity ==
    [][(IsCall(call', "on_activity") /\ AmountOf(call') = 0) =>
        /\ engine'.micro_active = engine.micro_active
        /\ engine'.rest_active = engine.rest_active
        /\ engine'.daily_active \in {engine.daily_active, 0}
        /\ engine'.micro_snooze_until = engine.micro_snooze_until
        /\ engine'.rest_snooze_until = engine.rest_snooze_until
        /\ engine'.active_break = engine.active_break
        /\ events' \in {<<>>, << DailyReset >>}
      ]_vars

\* on_activity(0, now) with no break active while a kind qualifies as due
C8_Witness ==
    /\ IsCall(call, "on_activity")
    /\ AmountOf(call) = 0
    /\ is_none(engine.active_break)
    /\ events = <<>>
    /\ \E kind \in BreakKinds : Qualifies(engine, kind, NowOf(call))

---------------------------------------------------------------------------
(* C9 *)

\* C9: an on_activity call returns at most one BreakDue; a call that advances
\* the counters (a > 0, no break active) returns BreakDue(kind) exactly for the
\* first kind in the order Micro, Rest, DailyLimit that is enabled, at or above
\* its interval and not snoozed at now; any other call returns none.
C9_DueByPriority ==
    [][IsCall(call', "on_activity") =>
        /\ CountType(events', "BreakDue") <= 1
        /\ \A kind \in BreakKinds :
              HasEvent(events', BreakDue(kind)) <=>
                /\ AmountOf(call') > 0
                /\ is_none(engine.active_break)
                /\ Qualifies(engine', kind, NowOf(call'))
                /\ \A j \in Higher(kind) : ~Qualifies(engine', j, NowOf(call'))
      ]_vars

\* DailyLimit is reported while Micro is at its interval but snoozed and Rest
\* is at its interval but disabled
C9_Witness ==
    /\ IsCall(call, "on_activity")
    /\ events = << BreakDue("DailyLimit") >>
    /\ engine.micro_active >= engine.settings.micro.interval_seconds
    /\ engine.settings.micro.enabled
    /\ engine.rest_active >= engine.settings.rest.interval_seconds
    /\ ~engine.settings.rest.enabled

---------------------------------------------------------------------------
(* C10 *)

\* C10: start_break while a break is active and tick_break while none is
\* active return an empty list and leave the whole engine unchanged.
C10_InvalidCallsAreNoOps ==
    [][/\ (IsCall(call', "start_break") /\ is_some(engine.active_break)) =>
            (events' = <<>> /\ engine' = engine)
       /\ (IsCall(call', "tick_break") /\ is_none(engine.active_break)) =>
            (events' = <<>> /\ engine' = engine)
      ]_vars

\* start_break of another kind was refused while a break is running
C10_Witness ==
    /\ IsCall(call, "start_break")
    /\ events = <<>>
    /\ is_some(engine.active_break)
    /\ unwrap(engine.active_break).kind # call[2]
    /\ unwrap(engine.active_break).remaining_seconds
         < break_duration(engine, unwrap(engine.active_break).kind)

---------------------------------------------------------------------------
(* C11 *)

BreakSnoozed(kind, until) == <<"BreakSnoozed", kind, until>>
\* arguments of a snooze call
KindOf(c) == c[2]
InstantOfSnooze(c) == c[3]

\* the engine with one kind's snooze-until replaced
WithSnooze(e, kind, until) ==
    CASE kind = "Micro" -> [e EXCEPT !.micro_snooze_until = until]
      [] kind = "Rest" -> [e EXCEPT !.rest_snooze_until = until]
      [] kind = "DailyLimit" -> [e EXCEPT !.daily_snooze_until = until]

\* the kind of the snooze call is not due: its counter is below its interval
SnoozeOfNotDue(e, c) ==
    /\ IsCall(c, "snooze")
    /\ CounterOf(e, KindOf(c)) < IntervalOf(e, KindOf(c))

\* C11 as stated: snooze(kind, now) of a kind that is not due leaves the engine
\* state unchanged.
C11_SnoozeNotDueIsNoOp ==
    [][SnoozeOfNotDue(engine, call') => engine' = engine]_vars

\* C11: snooze(kind, now) of a kind that is not due does not fail and is not a
\* no-op: it returns BreakSnoozed(kind, now + S) and the engine is the one
\* before the call with that kind's snooze-until set to now + S.
C11_SnoozeNotDueSetsUntil ==
    [][SnoozeOfNotDue(engine, call') =>
        LET until == InstantOfSnooze(call') + snooze_seconds_of(engine, KindOf(call'))
        IN  /\ events' = << BreakSnoozed(KindOf(call'), until) >>
            /\ engine' = WithSnooze(engine, KindOf(call'), Some(until))
      ]_vars

\* snooze of a kind that had never been snoozed, with its counter below its
\* interval and no break active, left a snooze-until behind
C11_Witness ==
    /\ IsCall(call, "snooze")
    /\ CounterOf(engine, KindOf(call)) < IntervalOf(engine, KindOf(call))
    /\ is_none(engine.active_break)
    /\ SnoozeOf(engine, KindOf(call))
         = Some(InstantOfSnooze(call) + snooze_seconds_of(engine, KindOf(call)))
    /\ events = << BreakSnoozed(KindOf(call), SnoozeOf(engine, KindOf(call))[1]) >>

---------------------------------------------------------------------------
(* C12 *)

Min(a, b) == IF a <= b THEN a ELSE b

\* C12: every snooze(kind, now) sets that kind's snooze-until to now + S
\* (at most u64::MAX), returns BreakSnoozed(kind, until) with the same value,
\* and leaves the counters, the other kinds' snoozes, the active break, the
\* last reset bucket and the settings as they were, whether or not the kind is
\* due or enabled or a break is active.
C12_SnoozeFrame ==
    [][IsCall(call', "snooze") =>
        LET kind == KindOf(call')
            until == Min(InstantOfSnooze(call') + snooze_seconds_of(engine, kind),
                         U64_MAX)
        IN  /\ SnoozeOf(engine', kind) = Some(until)
            /\ events' = << BreakSnoozed(kind, until) >>
            /\ \A j \in BreakKinds \ {kind} : SnoozeOf(engine', j) = SnoozeOf(engine, j)
            /\ \A j \in BreakKinds : CounterOf(engine', j) = CounterOf(engine, j)
            /\ engine'.active_break = engine.active_break
            /\ engine'.last_reset_bucket = engine.last_reset_bucket
            /\ engine'.settings = engine.settings
      ]_vars

\* snooze of a disabled kind while a break of another kind is under way
C12_Witness ==
    /\ IsCall(call, "snooze")
    /\ ~EnabledOf(engine, KindOf(call))
    /\ is_some(engine.active_break)
    /\ unwrap(engine.active_break).kind # KindOf(call)
    /\ unwrap(engine.active_break).remaining_seconds
         < break_duration(engine, unwrap(engine.active_break).kind)
    /\ events = << BreakSnoozed(KindOf(call), InstantOfSnooze(call) + 2) >>

---------------------------------------------------------------------------
(* C13 *)

\* C13: start_break(kind) with no break active returns exactly
\* [BreakStarted(kind)] and leaves the engine as it was except for an active
\* break of that kind whose remaining seconds are the micro duration, the rest
\* duration or 60 for DailyLimit, whether or not the kind is due, enabled or
\* snoozed; counters and snoozes are unchanged.
C13_StartBreak ==
    [][(IsCall(call', "start_break") /\ is_none(engine.active_break)) =>
        LET kind == KindOf(call')
            duration == CASE kind = "Micro" -> engine.settings.micro.duration_seconds
                          [] kind = "Rest" -> engine.settings.rest.duration_seconds
                          [] kind = "DailyLimit" -> 60
        IN  /\ events' = << BreakStarted(kind) >>
            /\ engine' = [engine EXCEPT !.active_break =
                              Some([kind |-> kind, remaining_seconds |-> duration])]
      ]_vars

\* a DailyLimit break was started while DailyLimit was disabled or below its
\* limit, and snoozed
C13_Witness ==
    /\ IsCall(call, "start_break")
    /\ KindOf(call) = "DailyLimit"
    /\ events = << BreakStarted("DailyLimit") >>
    /\ engine.active_break = Some([kind |-> "DailyLimit", remaining_seconds |-> 60])
    /\ engine.daily_active < engine.settings.daily_limit.limit_seconds
    /\ is_some(engine.daily_snooze_until)

---------------------------------------------------------------------------
(* C14 *)

\* the engine once a break of kind `kind` has completed
Discharged(e, kind) ==
    [e EXCEPT !.active_break = None,
              !.micro_active = 0,
              !.rest_active = IF kind = "Micro" THEN e.rest_active ELSE 0,
              !.daily_active = IF kind = "DailyLimit" THEN 0 ELSE e.daily_active]

\* C14: tick_break(e) with an active break of kind k and remaining r: if
\* e >= r the break is cleared, the counters are discharged for k and exactly
\* [BreakCompleted(k)] is returned; if e < r nothing is returned and the
\* engine is unchanged except that the remaining seconds are r - e, which is
\* strictly positive.
C14_TickBreak ==
    [][(IsCall(call', "tick_break") /\ is_some(engine.active_break)) =>
        LET k == unwrap(engine.active_break).kind
            r == unwrap(engine.active_break).remaining_seconds
            e == call'[2]
        IN  IF e >= r
            THEN /\ events' = << BreakCompleted(k) >>
                 /\ engine' = Discharged(engine, k)
            ELSE /\ events' = <<>>
                 /\ engine' = [engine EXCEPT !.active_break =
                                   Some([kind |-> k, remaining_seconds |-> r - e])]
                 /\ unwrap(engine'.active_break).remaining_seconds > 0
      ]_vars

\* a tick shorter than the remaining seconds left part of the break to run
C14_Witness ==
    /\ IsCall(call, "tick_break")
    /\ call[2] > 0
    /\ events = <<>>
    /\ is_some(engine.active_break)
    /\ unwrap(engine.active_break).remaining_seconds
          = break_duration(engine, unwrap(engine.active_break).kind) - call[2]

---------------------------------------------------------------------------
(* C15 *)

\* the value returned by the last call, when it was a query
Returned == events
\* the instant of a next_break_eta call
EtaNow(c) == c[2]

\* C15: next_break_eta(now) returns none in every state in which a break is
\* active, whatever now and the settings; active_break_info returns
\* some (kind, remaining) of the active break in those states and none in all
\* others.
C15_QueriesDuringBreak ==
    /\ (IsCall(call, "next_break_eta") /\ is_some(engine.active_break)) =>
          Returned = None
    /\ IsCall(call, "active_break_info") =>
          IF is_some(engine.active_break)
          THEN Returned = Some(<<unwrap(engine.active_break).kind,
                                 unwrap(engine.active_break).remaining_seconds>>)
          ELSE Returned = None

\* next_break_eta returned none during a partly ticked break although Micro is
\* enabled and below its interval
C15_Witness ==
    /\ IsCall(call, "next_break_eta")
    /\ Returned = None
    /\ is_some(engine.active_break)
    /\ is_some(begun)
    /\ unwrap(begun).ticked > 0
    /\ engine.settings.micro.enabled
    /\ engine.micro_active < engine.settings.micro.interval_seconds

---------------------------------------------------------------------------
(* C16 *)

\* the pair returned by a query that returned some
KindIn(o) == unwrap(o)[1]
CountdownIn(o) == unwrap(o)[2]

\* next_break_eta is called twice in a row, at now1 and then at now2 >= now1,
\* with no break active and with some result at now1
EtaAsked ==
    /\ IsCall(call, "next_break_eta")
    /\ IsCall(call', "next_break_eta")
    /\ EtaNow(call) <= EtaNow(call')
    /\ is_none(engine.active_break)
    /\ is_some(Returned)

\* DailyLimit is among the candidates of next_break_eta at now
DailyIsCandidate(e, now) ==
    \E i \in 1..Len(eta_candidates(e, now)) : eta_candidates(e, now)[i][1] = "DailyLimit"

\* C16 as stated: with no break active and no operation in between, a result
\* that is some at now1 is some at now2 >= now1, with a countdown that is not
\* larger.
C16_CountdownNeverGrows ==
    [][EtaAsked => (is_some(Returned') /\ CountdownIn(Returned') <= CountdownIn(Returned))
      ]_vars

\* C16: with no break active and no operation in between, a result that is
\* some at now1 is some at now2 >= now1, with a countdown that is not larger,
\* provided the kind returned at now1 is Micro or Rest, or DailyLimit is still a
\* candidate at now2 (its countdown at now2 is below the seconds to the next
\* reset).
C16_CountdownShrinks ==
    [][(/\ EtaAsked
        /\ \/ KindIn(Returned) # "DailyLimit"
           \/ DailyIsCandidate(engine, EtaNow(call'))) =>
          (is_some(Returned') /\ CountdownIn(Returned') <= CountdownIn(Returned))
      ]_vars

\* the query returned a countdown that a running snooze had made larger at an
\* earlier instant the engine could have been asked at
C16_Witness ==
    /\ IsCall(call, "next_break_eta")
    /\ is_none(engine.active_break)
    /\ is_some(Returned)
    /\ is_some(SnoozeOf(engine, KindIn(Returned)))
    /\ \E now1 \in EtaInstants :
          /\ clock <= now1
          /\ now1 < EtaNow(call)
          /\ is_some(next_break_eta(engine, now1))
          /\ KindIn(next_break_eta(engine, now1)) = KindIn(Returned)
          /\ CountdownIn(next_break_eta(engine, now1)) > CountdownIn(Returned)

---------------------------------------------------------------------------
(* C17 *)

Floor0(n) == IF n > 0 THEN n ELSE 0

\* countdown of a kind: what its counter lacks to the interval or limit, or
\* what is left of its snooze if that is more
CountdownOf(e, kind, now) ==
    Max(Floor0(IntervalOf(e, kind) - CounterOf(e, kind)),
        IF SnoozeOf(e, kind) = <<>> THEN 0 ELSE Floor0(SnoozeOf(e, kind)[1] - now))

\* the enabled kinds, DailyLimit only when its countdown is below the seconds
\* to the next reset
CandidateKinds(e, now) ==
    {kind \in BreakKinds :
        /\ EnabledOf(e, kind)
        /\ kind = "DailyLimit" =>
              CountdownOf(e, kind, now)
                < seconds_until_next_reset(now, reset_offset_seconds(e.settings.daily_limit))}

KindOrder == <<"Micro", "Rest", "DailyLimit">>
RankOf(kind) == CHOOSE i \in 1..3 : KindOrder[i] = kind

\* the candidate with the least countdown, the earliest in KindOrder among equals
Nearest(e, now) ==
    IF CandidateKinds(e, now) = {}
    THEN None
    ELSE LET k == CHOOSE kind \in CandidateKinds(e, now) :
                     \A j \in CandidateKinds(e, now) :
                        \/ CountdownOf(e, kind, now) < CountdownOf(e, j, now)
                        \/ /\ CountdownOf(e, kind, now) = CountdownOf(e, j, now)
                           /\ RankOf(kind) <= RankOf(j)
         IN  Some(<<k, CountdownOf(e, k, now)>>)

\* C17: with no break active, next_break_eta(now) returns the candidate with
\* the least countdown, each enabled kind's countdown being the larger of
\* interval - counter and snooze_until - now, both floored at 0; of candidates
\* with equal countdowns the earliest in the order Micro, Rest, DailyLimit is
\* returned; with no candidate it returns none.
C17_NearestCandidate ==
    (IsCall(call, "next_break_eta") /\ is_none(engine.active_break)) =>
        Returned = Nearest(engine, EtaNow(call))

\* Micro was returned with a positive countdown that Rest equals
C17_Witness ==
    /\ IsCall(call, "next_break_eta")
    /\ is_none(engine.active_break)
    /\ is_some(Returned)
    /\ KindIn(Returned) = "Micro"
    /\ CountdownIn(Returned) > 0
    /\ engine.settings.rest.enabled
    /\ CountdownOf(engine, "Rest", EtaNow(call)) = CountdownIn(Returned)

---------------------------------------------------------------------------
(* C18 *)

\* seconds from now to the first instant strictly after now that is congruent
\* to the reset offset modulo 86400
SecondsToBoundary(now, offset) == DAY_SECONDS - ((now - offset) % DAY_SECONDS)

\* C18 as stated: with no break active, DailyLimit is among the candidates of
\* next_break_eta(now) if and only if the daily limit is enabled and its
\* countdown is strictly less than the seconds from now to the next reset
\* boundary.
C18_DailyCandidate ==
    (IsCall(call, "next_break_eta") /\ is_none(engine.active_break)) =>
        (DailyIsCandidate(engine, EtaNow(call)) <=>
            /\ engine.settings.daily_limit.enabled
            /\ CountdownOf(engine, "DailyLimit", EtaNow(call))
                 < SecondsToBoundary(EtaNow(call),
                                     reset_offset_seconds(engine.settings.daily_limit)))

---------------------------------------------------------------------------
(* C19 *)

\* the bucket the engine computes for the instant of an on_activity call made
\* on engine e
BucketAt(e, c) == daily_bucket(NowOf(c), reset_offset_seconds(e.settings.daily_limit))

\* an on_activity call returns at most one DailyReset, and returns it exactly
\* when the bucket of its instant differs from last_reset_bucket
ResetOnNewBucket ==
    IsCall(call', "on_activity") =>
        /\ CountType(events', "DailyReset") <= 1
        /\ HasEvent(events', DailyReset) <=>
              BucketAt(engine, call') # engine.last_reset_bucket

\* C19 as stated: over any sequence of operations last_reset_bucket never
\* decreases, and each on_activity call returns at most one DailyReset, exactly
\* when the bucket of its instant differs from last_reset_bucket.
C19_BucketNeverDecreases ==
    [][/\ engine'.last_reset_bucket >= engine.last_reset_bucket
       /\ ResetOnNewBucket
      ]_vars

---------------------------------------------------------------------------
(* C20 *)

\* C20: replacing the settings while a break is in progress leaves the break,
\* its remaining seconds included, as it was; at every moment of a break its
\* remaining seconds are the duration computed when it started less the
\* seconds ticked since; a tick completes the break exactly when the seconds
\* ticked since the start reach that duration.
C20_BreakKeepsItsDuration ==
    [][/\ IsCall(call', "settings_mut") => engine'.active_break = engine.active_break
       /\ is_some(engine'.active_break) =>
             /\ is_some(begun')
             /\ unwrap(engine'.active_break).remaining_seconds
                  = unwrap(begun').duration - unwrap(begun').ticked
       /\ (IsCall(call', "tick_break") /\ is_some(engine.active_break)) =>
             (HasType(events', "BreakCompleted") <=>
                unwrap(begun).ticked + call'[2] >= unwrap(begun).duration)
      ]_vars

\* a break is partly ticked under settings whose duration for its kind is not
\* the one it started with
C20_Witness ==
    /\ IsCall(call, "tick_break")
    /\ is_some(engine.active_break)
    /\ is_some(begun)
    /\ unwrap(begun).ticked > 0
    /\ unwrap(begun).duration # break_duration(engine, unwrap(engine.active_break).kind)
    /\ unwrap(engine.active_break).remaining_seconds
         = unwrap(begun).duration - unwrap(begun).ticked

---------------------------------------------------------------------------
(* C30 *)

\* kind of the active break of e, <<>> when none is active
ActiveKind(e) == IF is_some(e.active_break) THEN Some(unwrap(e.active_break).kind) ELSE None

\* C30: BreakStarted and BreakCompleted alternate, starting with BreakStarted.
\* A call returns at most one of each; BreakStarted(k) is returned exactly by
\* the calls that take the engine from no break to an active break, of kind k;
\* BreakCompleted(k) is returned exactly by the calls that take it from an
\* active break, of kind k, to no break; the kind of an active break never
\* changes; so a break is active exactly between a BreakStarted and the next
\* BreakCompleted, which carries the kind of that BreakStarted.
C30_StartedCompletedAlternate ==
    [][/\ CountType(events', "BreakStarted") + CountType(events', "BreakCompleted") <= 1
       /\ \A k \in BreakKinds :
            /\ HasEvent(events', BreakStarted(k)) <=>
                  (ActiveKind(engine) = None /\ ActiveKind(engine') = Some(k))
            /\ HasEvent(events', BreakCompleted(k)) <=>
                  (ActiveKind(engine) = Some(k) /\ ActiveKind(engine') = None)
       /\ (is_some(engine.active_break) /\ is_some(engine'.active_break)) =>
              ActiveKind(engine') = ActiveKind(engine)
      ]_vars

\* a tick completed a Micro break, which zeroes the micro counter only, after
\* the daily counter had reached its limit
C30_Witness ==
    /\ IsCall(call, "tick_break")
    /\ events = << BreakCompleted("Micro") >>
    /\ ActiveKind(engine) = None
    /\ engine.micro_active = 0
    /\ engine.daily_active >= engine.settings.daily_limit.limit_seconds

---------------------------------------------------------------------------
(* C27 *)

\* C27 as stated: the bucket that new and on_activity compute for their instant
\* is floor((now - reset_offset) / 86400).
C27_BucketIsFloor ==
    (IsCall(call, "new") \/ IsCall(call, "on_activity")) =>
        engine.last_reset_bucket
          = ResetDay(InstantOf(call), reset_offset_seconds(engine.settings.daily_limit))

---------------------------------------------------------------------------
(* C21 *)

\* C21: no operation of the engine (new, on_activity, start_break, tick_break,
\* snooze, next_break_eta) overflows, underflows or wraps, for any input of its
\* unsigned type: after every call no arithmetic step has left its range and
\* no cast has changed a value.
C21_NoOverflow == fault = "none"

---------------------------------------------------------------------------
(* C22, C23: AnalyticsStore *)

\* the aggregate of a day, all-zero for a day the store does not hold
AggregateOf(store, day) ==
    IF day \in DOMAIN store THEN store[day] ELSE DailyAggregate_default

\* the field a completed break of the kind is counted in
DoneField(kind) ==
    CASE kind = "Micro" -> "micro_done"
      [] kind = "Rest" -> "rest_done"
      [] kind = "DailyLimit" -> "daily_limit_hits"

Bumped(aggregate, field) == [aggregate EXCEPT ![field] = @ + 1]

\* C22: record_break(day, kind, outcome) changes the aggregate of no other
\* day; on the given day Completed adds one to the counter of the kind and to
\* nothing else, Skipped adds one to skipped only, whatever the kind, and
\* Snoozed changes no counter, so that every week's summary is the same
\* before and after it.
C22_RecordBreak ==
    [][(IsCall(call', "record_break") /\ recorded' # recorded) =>
          LET day == call'[2]
              kind == call'[3]
              outcome == call'[4]
              before == AggregateOf(by_day, day)
              after == AggregateOf(by_day', day)
          IN  /\ \A d \in (DOMAIN by_day \cup DOMAIN by_day') \ {day} :
                    AggregateOf(by_day', d) = AggregateOf(by_day, d)
              /\ outcome = "Completed" => after = Bumped(before, DoneField(kind))
              /\ outcome = "Skipped" => after = Bumped(before, "skipped")
              /\ outcome = "Snoozed" =>
                    /\ after = before
                    /\ \A end \in EndDays :
                          summarize_week_ending(by_day', end)
                              = summarize_week_ending(by_day, end)
      ]_vars

C22_Witness ==
    /\ call = <<"record_break", 11, "Rest", "Snoozed">>
    /\ by_day[11] = DailyAggregate(120, 0, 1, 0, 0)
    /\ recorded = 3

RECURSIVE SumField(_, _, _)
SumField(store, days, field) ==
    IF days = {}
    THEN 0
    ELSE LET d == CHOOSE x \in days : TRUE
         IN  store[d][field] + SumField(store, days \ {d}, field)

\* the sum of active_seconds over the days, as carry * 2^w + low
RECURSIVE SumActive(_, _)
SumActive(store, days) ==
    IF days = {}
    THEN [carry |-> 0, low |-> 0]
    ELSE LET d == CHOOSE x \in days : TRUE
             rest == SumActive(store, days \ {d})
             a == store[d].active_seconds
         IN  IF rest.low > U64_MAX - a
             THEN [carry |-> rest.carry + 1, low |-> rest.low - (U64_MAX - a) - 1]
             ELSE [carry |-> rest.carry, low |-> rest.low + a]

\* the recorded days of the week ending on `end`
WeekOf(store, end) == {d \in DOMAIN store : end - 6 <= d /\ d <= end}

\* C23: summarize_week_ending(end) returns, for each field, the sum of the
\* field over the recorded days d with end - 6 <= d <= end, and nothing of any
\* other day.
C23_WeekWindow ==
    IsCall(call, "summarize_week_ending") =>
        LET week == WeekOf(by_day, call[2])
            seconds == SumActive(by_day, week)
        IN  /\ seconds.carry = 0
            /\ events = Some(WeeklySummary(seconds.low,
                                           SumField(by_day, week, "micro_done"),
                                           SumField(by_day, week, "rest_done"),
                                           SumField(by_day, week, "daily_limit_hits"),
                                           SumField(by_day, week, "skipped")))

---------------------------------------------------------------------------
(* C24, C25, C26: ProfileStore *)

\* the lowest of a non-empty set of ids
LowestKey(ids) == CHOOSE k \in ids : \A j \in ids : key_rank(k) <= key_rank(j)

\* the two stores hold the same profile under every id but `id`
SameButFor(before, after, id) ==
    /\ DOMAIN after.profiles \ {id} = DOMAIN before.profiles \ {id}
    /\ \A k \in DOMAIN before.profiles \ {id} : after.profiles[k] = before.profiles[k]

\* C24: remove(id) returns the removed profile, or none when the store does
\* not hold the id, and leaves every other profile; when the id was the active
\* one the lowest remaining key becomes active, or none when no profile
\* remains; otherwise the active selection is unchanged.
C24_Remove ==
    [][IsCall(call', "remove") =>
          LET id == call'[2]
              left == DOMAIN profile_store'.profiles
          IN  /\ id \notin left
              /\ SameButFor(profile_store, profile_store', id)
              /\ events' = IF id \in DOMAIN profile_store.profiles
                           THEN Some(profile_store.profiles[id])
                           ELSE None
              /\ profile_store.active_id = Some(id) =>
                    profile_store'.active_id =
                        IF left = {} THEN None ELSE Some(LowestKey(left))
              /\ profile_store.active_id # Some(id) =>
                    profile_store'.active_id = profile_store.active_id
      ]_vars

C24_Witness ==
    /\ call = <<"remove", "office">>
    /\ was_active = Some("office")
    /\ DOMAIN profile_store.profiles = {"gaming", "travel"}
    /\ profile_store.active_id = Some("gaming")
    /\ events = Some(Profile("office", "Office", Ordered))

\* C25: activate(id) returns true and makes the id active when the store
\* holds it; otherwise it returns false and leaves the active selection as it
\* was; the stored profiles are unchanged either way.
C25_Activate ==
    [][IsCall(call', "activate") =>
          LET id == call'[2]
              held == id \in DOMAIN profile_store.profiles
          IN  /\ events' = held
              /\ profile_store'.profiles = profile_store.profiles
              /\ profile_store'.active_id =
                    IF held THEN Some(id) ELSE profile_store.active_id
      ]_vars

C25_Witness ==
    /\ call = <<"activate", "gaming">>
    /\ events = TRUE
    /\ was_active = Some("office")
    /\ profile_store.active_id = Some("gaming")
    /\ active(profile_store) = Some(Profile("gaming", "Gaming", Ordered))

\* C26: upsert(profile) puts the profile under its id, in place of the one
\* held under that id if any, and leaves every other profile; the profile
\* becomes active when no profile was active before, and otherwise the
\* active selection is unchanged.
C26_Upsert ==
    [][IsCall(call', "upsert") =>
          LET profile == call'[2]
          IN  /\ profile.id \in DOMAIN profile_store'.profiles
              /\ profile_store'.profiles[profile.id] = profile
              /\ SameButFor(profile_store, profile_store', profile.id)
              /\ profile_store'.active_id =
                    IF profile_store.active_id = None
                    THEN Some(profile.id)
                    ELSE profile_store.active_id
      ]_vars

C26_Witness ==
    /\ call = <<"upsert", Profile("gaming", "Gaming", Ordered)>>
    /\ was_active = Some("office")
    /\ profile_store.active_id = Some("office")
    /\ DOMAIN profile_store.profiles = {"gaming", "office"}

---------------------------------------------------------------------------
(* C28, C29: the host loop *)

\* the call recorded in c advances the engine
IsAdvance(c) == IsCall(c, "tick_break") \/ IsCall(c, "on_activity")

\* the loop makes the step that advances the engine
Advances == host.pc = "tick" /\ host'.pc # "tick"

\* C28: the loop comes to advance the engine only from the queue, when
\* try_recv has found it empty and no Stop has been received; while it
\* drains it never waits for a message and makes no advancing call; the
\* advance is one call, tick_break(1) when a break is active and
\* on_activity(1, now) otherwise; once Stop has been received the engine is
\* not advanced again, and the loop terminates.
C28_DrainThenAdvance ==
    /\ [][/\ (host.pc # "tick" /\ host'.pc = "tick") =>
                 host.pc = "drain" /\ queue = <<>> /\ host.running
          /\ (host.pc # "tick" /\ call' # call) => ~IsAdvance(call')
          /\ Advances =>
                 /\ host.running
                 /\ host'.pc = "drain"
                 /\ IF is_some(active_break_info(engine))
                    THEN /\ call' = <<"tick_break", 1>>
                         /\ engine' = tick_break(engine, 1).engine
                    ELSE /\ IsCall(call', "on_activity")
                         /\ AmountOf(call') = 1
                         /\ engine' = on_activity(engine, 1, NowOf(call')).engine
          /\ ~host.running =>
                 queue = <<>> /\ ~host'.running /\ ~Advances /\ engine' = engine
         ]_vars
    /\ []((host.pc = "drain" /\ queue = <<>>) => ENABLED QueueEmpty)
    /\ [](~host.running => host.pc # "tick")
    /\ (~host.running ~> host.pc = "done")

C28_Witness ==
    /\ host.pc = "done"
    /\ ~host.running
    /\ host.weekly_stats.total_active_seconds >= 2
    /\ host.weekly_stats.micro_done = 1
    /\ IsCall(call, "none")

\* C29: when the loop handles SnoozePending and snoozes the pending break,
\* the weekly counters micro_done, rest_done, daily_limit_hits and skipped
\* are the same after the step as before it.
C29_SnoozeCountsNothing ==
    [][(/\ host.pc = "drain"
        /\ queue # <<>>
        /\ Head(queue) = SnoozePending
        /\ Len(queue') < Len(queue)
        /\ is_some(host.pending_break)
        /\ is_none(host'.pending_break)) =>
          /\ host'.weekly_stats.micro_done = host.weekly_stats.micro_done
          /\ host'.weekly_stats.rest_done = host.weekly_stats.rest_done
          /\ host'.weekly_stats.daily_limit_hits = host.weekly_stats.daily_limit_hits
          /\ host'.weekly_stats.skipped = host.weekly_stats.skipped
      ]_vars

---------------------------------------------------------------------------
(* C35 *)

\* C35: in every reachable state of the engine the micro counter is at most
\* the rest counter; a call that brings the rest counter down leaves the
\* micro counter at zero, and a daily reset alone (an on_activity(0, now)
\* that emits DailyReset) changes neither counter.
C35_MicroAtMostRest ==
    /\ [](engine.micro_active <= engine.rest_active)
    /\ [][/\ engine'.rest_active < engine.rest_active => engine'.micro_active = 0
          /\ (/\ IsCall(call', "on_activity")
              /\ AmountOf(call') = 0
              /\ HasEvent(events', DailyReset)) =>
                 /\ engine'.micro_active = engine.micro_active
                 /\ engine'.rest_active = engine.rest_active
         ]_vars

C35_Witness ==
    /\ IsCall(call, "tick_break")
    /\ events = << BreakCompleted("Micro") >>
    /\ engine.micro_active = 0
    /\ engine.rest_active = 2

---------------------------------------------------------------------------
(* C36 *)

\* C36: in every state of a ProfileStore that started empty the active
\* selection is none exactly when the store holds no profile, an active id is
\* the key of a stored profile, and active() returns a profile exactly when
\* the store holds one.
C36_ActiveNeverDangles ==
    /\ is_none(profile_store.active_id) <=> DOMAIN profile_store.profiles = {}
    /\ is_some(profile_store.active_id) =>
          /\ unwrap(profile_store.active_id) \in DOMAIN profile_store.profiles
          /\ profile_store.profiles[unwrap(profile_store.active_id)].id
                = unwrap(profile_store.active_id)
    /\ is_some(active(profile_store)) <=> DOMAIN profile_store.profiles # {}

C36_Witness ==
    /\ call = <<"remove", "gaming">>
    /\ was_active = Some("gaming")
    /\ profile_store.active_id = Some("travel")
    /\ DOMAIN profile_store.profiles = {"travel"}
    /\ events = Some(Profile("gaming", "Gaming", Ordered))

---------------------------------------------------------------------------
(* C38 *)

\* the loop takes SnoozePending from the queue
TakesSnoozePending ==
    /\ host.pc = "drain"
    /\ queue # <<>>
    /\ Head(queue) = SnoozePending
    /\ queue' = Tail(queue)

\* C38: a SnoozePending handled while the settings are Strict makes no call
\* to the engine and leaves the engine, the pending break and the statistics
\* as they were; under another block level a SnoozePending with a pending
\* kind calls snooze for exactly that kind and clears the pending break, and
\* with no pending break it does nothing.
C38_StrictNeverSnoozes ==
    [][TakesSnoozePending =>
          IF host.core_settings.block_level = "Strict" \/ is_none(host.pending_break)
          THEN /\ call' = <<"none">>
               /\ engine' = engine
               /\ host' = host
          ELSE /\ IsCall(call', "snooze")
               /\ call'[2] = unwrap(host.pending_break)
               /\ engine' = snooze(engine, call'[2], call'[3]).engine
               /\ \A k \in BreakKinds \ {call'[2]} : SnoozeOf(engine', k) = SnoozeOf(engine, k)
               /\ is_none(host'.pending_break)
      ]_vars

\* a SnoozePending was handled under Strict while a break was pending
C38_Witness ==
    /\ call = <<"none">>
    /\ host.core_settings.block_level = "Strict"
    /\ is_some(host.pending_break)
    /\ host.running
    /\ sent >= 2
    /\ queue = <<>>
    /\ host.weekly_stats.skipped = 0

---------------------------------------------------------------------------
(* C33 *)

\* the last call is an on_activity(a > 0, now) that found no break active,
\* under a block level that does not force breaks
PolledUnforced ==
    /\ IsCall(call, "on_activity")
    /\ AmountOf(call) > 0
    /\ is_none(engine.active_break)
    /\ engine.settings.block_level # "Strict"

\* C33: right after an on_activity(a > 0, now) made with no break active under
\* a non-Strict block level, next_break_eta(now) is (k, 0) exactly when the
\* call returned BreakDue(k); when the call returned no BreakDue,
\* next_break_eta(now) is none or its countdown is at least 1.
C33_EtaAgreesWithDue ==
    PolledUnforced =>
        LET eta == next_break_eta(engine, NowOf(call))
        IN  /\ \A k \in BreakKinds :
                  eta = Some(<<k, 0>>) <=> HasEvent(events, BreakDue(k))
            /\ ~HasType(events, "BreakDue") =>
                  is_none(eta) \/ unwrap(eta)[2] >= 1

\* Rest is announced while Micro, also at its interval, is snoozed
C33_Witness ==
    /\ PolledUnforced
    /\ events = << BreakDue("Rest") >>
    /\ Qualifies(engine, "Rest", NowOf(call))
    /\ engine.micro_active >= engine.settings.micro.interval_seconds
    /\ engine.settings.micro.enabled
    /\ next_break_eta(engine, NowOf(call)) = Some(<<"Rest", 0>>)

---------------------------------------------------------------------------
(* C34 *)

\* the step is an on_activity(a > 0, now) that finds no break active, under a
\* block level that does not force breaks
PollsUnforced ==
    /\ IsCall(call', "on_activity")
    /\ AmountOf(call') > 0
    /\ is_none(engine.active_break)
    /\ engine'.settings.block_level # "Strict"

\* before the step the kind is enabled with its counter at or above its
\* interval, the step does not discharge it, and it is not snoozed at `now`
StillDue(kind) ==
    /\ EnabledOf(engine, kind)
    /\ CounterOf(engine, kind) >= IntervalOf(engine, kind)
    /\ kind = "DailyLimit" => ~HasEvent(events', DailyReset)
    /\ ~is_snoozed(SnoozeOf(engine', kind), NowOf(call'))

\* C34: under a non-Strict block level, while a kind stays at or above its
\* interval, unsnoozed, and no break is started, every on_activity(a > 0, now)
\* returns a BreakDue, for the first due and unsnoozed kind in the order
\* Micro, Rest, DailyLimit; the call leaves the counters advanced, not reset;
\* and no step lowers a counter unless it returns BreakCompleted or DailyReset.
C34_DueReannounced ==
    /\ [][PollsUnforced =>
            /\ (\E k \in BreakKinds : StillDue(k)) => HasType(events', "BreakDue")
            /\ \A k \in BreakKinds :
                  HasEvent(events', BreakDue(k)) =>
                     /\ Qualifies(engine', k, NowOf(call'))
                     /\ \A j \in Higher(k) : ~Qualifies(engine', j, NowOf(call'))
            /\ engine'.micro_active = saturating_add(engine.micro_active, AmountOf(call'))
            /\ engine'.rest_active = saturating_add(engine.rest_active, AmountOf(call'))
            /\ engine'.daily_active =
                  saturating_add(IF HasEvent(events', DailyReset)
                                 THEN 0
                                 ELSE engine.daily_active, AmountOf(call'))
         ]_vars
    /\ [][(\E k \in BreakKinds : CounterOf(engine', k) < CounterOf(engine, k)) =>
            HasType(events', "BreakCompleted") \/ HasEvent(events', DailyReset)
         ]_vars

\* Micro, already at its interval before the call, is announced again
C34_Witness ==
    /\ IsCall(call, "on_activity")
    /\ AmountOf(call) = 1
    /\ engine.settings.block_level # "Strict"
    /\ is_none(engine.active_break)
    /\ events = << BreakDue("Micro") >>
    /\ engine.micro_active > engine.settings.micro.interval_seconds
    /\ is_none(engine.micro_snooze_until)

---------------------------------------------------------------------------
(* Per-second polling: the engine driven as runtime_loop drives it, one
   on_activity(1, now) or tick_break(1) a second, with next_break_eta asked
   in between *)

\* micro < rest, a daily limit of two seconds, rest breaks of no length
PollSoft ==
    Settings(BreakTimerSettings(4, 2, 2, TRUE), BreakTimerSettings(5, 0, 3, TRUE),
             DailyLimitSettings(2, 2, 4, 0, TRUE), "Soft")

\* breaks start as soon as they are due
PollStrict ==
    Settings(BreakTimerSettings(3, 3, 2, TRUE), BreakTimerSettings(5, 1, 3, TRUE),
             DailyLimitSettings(3, 2, 4, 0, TRUE), "Strict")

PollSettingsSet == {PollSoft, PollStrict}

\* three seconds before the reset instant of the second day (28 h = 100800 s)
PollStart == (28 * 3600) - 3

\* the seconds of wall clock explored after PollStart
PollSpan == 6

\* how far the clock may have moved when next_break_eta is asked
PollIdleSeconds == {0, 1, 2}

\* the instant at which the user snoozes
PollSnoozeInstant == PollStart + 2

\* the breaks the user starts by hand; a DailyLimit break starts when the
\* limit is reached under Strict
PollBreakKinds == {"Micro", "Rest"}

InitPoll ==
    \E s \in PollSettingsSet :
        /\ engine = new(s, PollStart)
        /\ events = <<>>
        /\ call = <<"new", PollStart>>
        /\ clock = PollStart
        /\ begun = None
        /\ cum = 0
        /\ fresh = FALSE
        /\ last_snooze = [k \in BreakKinds |-> None]
        /\ reset_since = FALSE
        /\ after_rest = 0
        /\ build = "release"
        /\ fault = "none"
        /\ RestIdle

poll_frame ==
    UNCHANGED <<build, fault, run_vars, analytics_vars, profile_vars, host_vars,
                runtime_vars>>

\* main.rs:623-624: on_activity(1, now), one second after the previous instant
PollActivity ==
    LET now == clock + 1
        r == on_activity(engine, 1, now)
    IN  /\ now <= PollStart + PollSpan
        /\ engine' = r.engine
        /\ events' = r.events
        /\ call' = <<"on_activity", 1, now>>
        /\ clock' = now
        /\ begun' = break_started(engine, r.engine)
        /\ forecast' =
             IF is_some(forecast) /\ unwrap(forecast).polls < unwrap(forecast).countdown
             THEN Some([unwrap(forecast) EXCEPT
                          !.polls = @ + 1,
                          !.reset = @ \/ HasEvent(r.events, DailyReset)])
             ELSE None
        /\ poll_frame

\* main.rs:620-621: tick_break(1)
PollTick ==
    LET r == tick_break(engine, 1)
    IN  /\ engine' = r.engine
        /\ events' = r.events
        /\ call' = <<"tick_break", 1>>
        /\ begun' =
             IF is_none(begun) \/ is_none(engine.active_break)
             THEN begun
             ELSE Some([unwrap(begun) EXCEPT !.ticked = @ + 1])
        /\ forecast' = None
        /\ UNCHANGED clock
        /\ poll_frame

\* next_break_eta(now); `events` holds the Option it returns
PollEta ==
    \E idle \in PollIdleSeconds :
        LET now == clock + idle
            eta == next_break_eta(engine, now)
        IN  /\ now <= PollStart + PollSpan
            /\ events' = eta
            /\ call' = <<"next_break_eta", now>>
            /\ clock' = now
            /\ forecast' =
                 IF is_some(eta) /\ unwrap(eta)[2] >= 1 /\ is_none(engine.active_break)
                 THEN Some([kind |-> unwrap(eta)[1], countdown |-> unwrap(eta)[2],
                            polls |-> 0, reset |-> FALSE])
                 ELSE None
            /\ UNCHANGED engine
            /\ UNCHANGED begun
            /\ poll_frame

PollSnooze ==
    \E kind \in BreakKinds :
        LET r == snooze(engine, kind, clock)
        IN  /\ clock = PollSnoozeInstant
            /\ engine' = r.engine
            /\ events' = r.event
            /\ call' = <<"snooze", kind, clock>>
            /\ forecast' = None
            /\ UNCHANGED clock_vars
            /\ poll_frame

PollStartBreak ==
    \E kind \in PollBreakKinds :
        LET r == start_break(engine, kind)
        IN  /\ engine' = r.engine
            /\ events' = r.events
            /\ call' = <<"start_break", kind>>
            /\ begun' = break_started(engine, r.engine)
            /\ forecast' = None
            /\ UNCHANGED clock
            /\ poll_frame

PollUpdateSettings ==
    \E s \in PollSettingsSet :
        /\ s # engine.settings
        /\ engine' = replace_settings(engine, s)
        /\ events' = <<>>
        /\ call' = <<"settings_mut">>
        /\ forecast' = None
        /\ UNCHANGED clock_vars
        /\ poll_frame

NextPoll ==
    \/ PollActivity
    \/ PollTick
    \/ PollEta
    \/ PollSnooze
    \/ PollStartBreak
    \/ PollUpdateSettings

\* runtime_loop calls tick_break(1) every second while a break is active
\* (main.rs:619-621), so a tick that stays possible is eventually taken
SpecPoll == InitPoll /\ [][NextPoll]_vars /\ WF_vars(PollTick)

---------------------------------------------------------------------------
(* C32: the ETA as a prediction of the polls that follow it *)

\* the state after one of the per-second on_activity calls that follow an
\* answer (kind, countdown >= 1) of next_break_eta
FollowsEta == is_some(forecast) /\ IsCall(call, "on_activity")

\* what the answer predicts of the call just made: no BreakDue before the
\* countdown-th call, BreakDue(kind) from the countdown-th
AsForecast ==
    LET f == unwrap(forecast)
    IN  /\ f.polls < f.countdown => ~HasType(events, "BreakDue")
        /\ f.polls = f.countdown => HasEvent(events, BreakDue(f.kind))

---------------------------------------------------------------------------
(* C31: a break completes on its last tick, whatever is called meanwhile *)

InBreak == is_some(engine.active_break)

\* the step is a tick_break(1) of a break in progress
TicksInBreak == InBreak /\ IsCall(call', "tick_break")

\* the step is a call other than tick_break made while a break is in progress
CallsInBreak == InBreak /\ call' # call /\ ~IsCall(call', "tick_break")

\* C31: a break started with duration D >= 1 and advanced by tick_break(1)
\* emits BreakCompleted on the D-th tick and on no earlier one; a break of
\* duration 0 completes on the first tick; on_activity, snooze, start_break
\* and a change of settings made meanwhile neither complete the break nor move
\* its countdown; ticked every second, an active break always ends, and the
\* on_activity calls that follow count again.
C31_BreakCompletes ==
    /\ [][TicksInBreak =>
            LET b == unwrap(begun)
                kind == unwrap(engine.active_break).kind
            IN  /\ is_some(begun)
                /\ IF b.ticked + 1 >= b.duration
                   THEN /\ events' = << BreakCompleted(kind) >>
                        /\ is_none(engine'.active_break)
                   ELSE /\ events' = <<>>
                        /\ is_some(engine'.active_break)
                        /\ unwrap(engine'.active_break).kind = kind]_vars
    /\ [][CallsInBreak =>
            /\ engine'.active_break = engine.active_break
            /\ begun' = begun
            /\ (~IsCall(call', "next_break_eta") =>
                    ~HasType(events', "BreakCompleted"))]_vars
    /\ [][(~InBreak /\ IsCall(call', "on_activity")) =>
            engine'.rest_active = engine.rest_active + 1]_vars
    /\ (InBreak ~> ~InBreak)

\* a micro break started with three seconds ends on its third tick, though
\* the settings were replaced meanwhile by ones with two-second micro breaks
C31_Witness ==
    /\ IsCall(call, "tick_break")
    /\ events = << BreakCompleted("Micro") >>
    /\ begun = Some([duration |-> 3, ticked |-> 3])
    /\ engine.settings = PollSoft
    /\ is_none(engine.active_break)

---------------------------------------------------------------------------
(* main.rs: start_runtime and stop_runtime called from concurrent commands,
   and the runtime_loop threads they spawn and join.  `runtime.loops[i]` is
   the i-th thread spawned: where it stands (pc) and whether a Stop lies
   unread in its channel; `runtime.joins` holds the threads whose handle a
   stop_runtime has taken and is joining, outside the runtime mutex *)

\* runtime_loop threads spawned in one run
MaxLoops == 3

\* a thread runs from thread::spawn until runtime_loop returns
LoopPcs == {"spawned", "draining", "ticking", "stopping", "dead"}

LoopIds == 1..Len(runtime.loops)

Alive(i) == runtime.loops[i].pc # "dead"

\* what the command returns: the clone of the shared status
status_of(rt) == << "Ok", IF rt.running THEN "running" ELSE "stopped" >>

InitRuntime ==
    /\ runtime = RuntimeController_default
    /\ build = "release"
    /\ fault = "none"
    /\ AnalyticsIdle
    /\ ProfilesIdle
    /\ HostIdle
    /\ PollIdle
    /\ engine = new(Ordered, 14399)
    /\ events = <<>>
    /\ call = <<"default">>
    /\ cum = 0
    /\ fresh = FALSE
    /\ last_snooze = [k \in BreakKinds |-> None]
    /\ reset_since = FALSE
    /\ after_rest = 0
    /\ clock = 0
    /\ begun = None

runtime_frame ==
    UNCHANGED <<engine, build, fault, run_vars, clock_vars, analytics_vars,
                profile_vars, host_vars, poll_vars>>

\* main.rs:906-945, under the runtime mutex: spawn a loop unless a sender is
\* held, then return the status
StartRuntime ==
    /\ is_some(runtime.tx) \/ Len(runtime.loops) < MaxLoops
    /\ runtime' =
         IF is_none(runtime.tx)
         THEN LET id == Len(runtime.loops) + 1
              IN  [runtime EXCEPT
                     !.loops = Append(@, [pc |-> "spawned", stop |-> FALSE]),
                     !.tx = Some(id),
                     !.handle = Some(id)]
         ELSE runtime
    /\ call' = <<"start_runtime">>
    /\ events' = status_of(runtime)
    /\ runtime_frame

\* main.rs:949-960, under the runtime mutex: take the sender or fail, send
\* Stop, take the handle; the mutex is released before the join
StopRuntime ==
    /\ call' = <<"stop_runtime">>
    /\ IF is_none(runtime.tx)
       THEN /\ events' = << "Err", "RuntimeNotRunning" >>
            /\ UNCHANGED runtime
       ELSE /\ events' = <<>>
            /\ runtime' =
                 [runtime EXCEPT
                    !.tx = None,
                    !.loops[unwrap(runtime.tx)].stop = TRUE,
                    !.handle = None,
                    !.joins = @ \cup (IF is_some(runtime.handle)
                                      THEN {unwrap(runtime.handle)}
                                      ELSE {})]
    /\ runtime_frame

\* main.rs:962-977: join returns once the thread has ended; the status is
\* then read under the runtime mutex
StopRuntimeJoined ==
    \E id \in runtime.joins :
        /\ ~Alive(id)
        /\ runtime' = [runtime EXCEPT !.joins = @ \ {id}]
        /\ call' = <<"stop_runtime_joined", id>>
        /\ events' = status_of(runtime)
        /\ runtime_frame

loop_step(id, step, rt) ==
    /\ runtime' = rt
    /\ call' = <<"runtime_loop", id, step>>
    /\ events' = <<>>
    /\ runtime_frame

\* main.rs:526-535: the engine is built and the status set to running
LoopStarts ==
    \E id \in LoopIds :
        /\ runtime.loops[id].pc = "spawned"
        /\ loop_step(id, "started",
                     [runtime EXCEPT !.loops[id].pc = "draining", !.running = TRUE])

\* main.rs:538-615: the messages are drained; a Stop ends the loop
LoopDrains ==
    \E id \in LoopIds :
        /\ runtime.loops[id].pc = "draining"
        /\ loop_step(id, "drained",
                     [runtime EXCEPT
                        !.loops[id].pc = IF runtime.loops[id].stop
                                         THEN "stopping" ELSE "ticking",
                        !.loops[id].stop = FALSE])

\* main.rs:617-749: the engine is advanced and the status written
LoopTicks ==
    \E id \in LoopIds :
        /\ runtime.loops[id].pc = "ticking"
        /\ loop_step(id, "ticked",
                     [runtime EXCEPT !.loops[id].pc = "draining", !.running = TRUE])

\* main.rs:752-762: the last write of the status, then the thread ends
LoopExits ==
    \E id \in LoopIds :
        /\ runtime.loops[id].pc = "stopping"
        /\ loop_step(id, "exited",
                     [runtime EXCEPT !.loops[id].pc = "dead", !.running = FALSE])

NextRuntime ==
    \/ StartRuntime
    \/ StopRuntime
    \/ StopRuntimeJoined
    \/ LoopStarts
    \/ LoopDrains
    \/ LoopTicks
    \/ LoopExits

SpecRuntime == InitRuntime /\ [][NextRuntime]_vars

---------------------------------------------------------------------------
(* C37: one runtime loop at a time *)

\* the loop has written its first status and not yet its last
Reporting(i) == runtime.loops[i].pc \in {"draining", "ticking", "stopping"}

\* C37: whatever the interleaving of start_runtime and stop_runtime, at most
\* one runtime_loop thread is alive, and the shared status says running while
\* a loop that has started has not ended: the last status write of a
\* stopping loop never replaces the status of a newer loop.
C37_OneLoopAtATime ==
    /\ Cardinality({i \in LoopIds : Alive(i)}) <= 1
    /\ \A i \in LoopIds : Reporting(i) => runtime.running

===========================================================================
